---- MODULE Spec2Model ----
(***************************************************************************)
(* Recurring-transaction detection of the finance dashboard:               *)
(*   src/lib/plaid.ts                   normalizeMerchant, isUtility,      *)
(*                                      detectFrequency, the two-pass      *)
(*                                      detectRecurringTransactions        *)
(*   src/app/(app)/recurring/page.tsx   RecurringPage: detection followed  *)
(*                                      by the user's overrides            *)
(*                                                                         *)
(* Conventions of the model                                                *)
(*   - strings are TLA+ strings, read character by character with SubSeq;  *)
(*   - dates are ISO strings "YYYY-MM-DD", parsed and formatted the way    *)
(*     the Date object does it (local midnight in, UTC date out), with the *)
(*     process's time zone a fixed offset in hours east of UTC (daylight   *)
(*     saving changes are not modelled);                                   *)
(*   - amounts are whole cents; means and monthly amounts are exact        *)
(*     fractions [num, den], compared by cross-multiplication (the         *)
(*     rounding of IEEE doubles is not modelled);                          *)
(*   - null is the record Null.                                            *)
(***************************************************************************)
EXTENDS Integers, Sequences, FiniteSets

VARIABLES
    transactions,   \* page.tsx:25  rows returned by getTransactionsByDateRange
    overrideStore,  \* rows of table recurring_overrides
    fetchFails,     \* whether getRecurringOverrides() rejects in this request
    overrides,      \* page.tsx:25  the page's `overrides` after the fetch
    detected,       \* page.tsx:30  value returned by detectRecurringTransactions
    recurring,      \* page.tsx:50  list handed to RecurringClient
    pc,             \* position of the request: "start" | "done" | "failed"
    gaps,           \* argument of a detectFrequency call
    frequencyResult, \* its result
    zone,           \* time zone of the server process, hours east of UTC
    log,            \* calls of the overrides route so far, oldest first
    served,         \* requests for the page the process has answered
    rawDescription, \* argument of a normalizeMerchant call
    normalizedKey,  \* its result
    mounted,        \* RecurringClient has been mounted
    clientList,     \* RecurringClient: the state `list`, the cards displayed
    pendingKey,     \* RecurringClient: the state pendingKey, {key} or {} for null
    showAddModal,   \* RecurringClient: the state showAddModal
    handlerCalls,   \* the calls of handleRemove and handleAdd so far, each
                    \* with its key, its snapshot and how far it has come
    plaid_items,    \* the table plaid_items: item_id, access_token, cursor,
                    \* institution_name
    txTable,        \* the rows of the table transactions the sync wrote
    accounts,       \* the table accounts
    syncPc,         \* the sync route: "idle", or "loop" inside its for loop
    items,          \* sync route: the rows of plaid_items it selected
    itemIndex,      \* sync route: position of the for loop in items
    totalSynced,    \* sync route: totalSynced
    itemErrors,     \* sync route: itemErrors
    syncResponse,   \* the response of the latest call of the sync route
    syncCalls       \* calls of the sync route answered so far

\* The variables of the page, the overrides route and detectFrequency
detectorVars == <<transactions, overrideStore, fetchFails, overrides, detected,
                  recurring, pc, gaps, frequencyResult, zone, log, served>>

\* The variables of a normalizeMerchant call
normalizeVars == <<rawDescription, normalizedKey>>

\* The variables of the component RecurringClient
clientVars == <<mounted, clientList, pendingKey, showAddModal, handlerCalls>>

\* The variables of the sync route and of the tables it writes
syncVars == <<plaid_items, txTable, accounts, syncPc, items, itemIndex,
              totalSynced, itemErrors, syncResponse, syncCalls>>

\* The variables the page, the overrides route and detectFrequency leave alone
otherVars == <<normalizeVars, clientVars, syncVars>>

vars == <<detectorVars, otherVars>>

\* The component RecurringClient is not mounted
ClientIdle ==
    /\ mounted = FALSE
    /\ clientList = <<>>
    /\ pendingKey = {}
    /\ showAddModal = FALSE
    /\ handlerCalls = <<>>

\* No bank is connected and the sync route is not called
SyncIdle ==
    /\ plaid_items = <<>>
    /\ txTable = {}
    /\ accounts = {}
    /\ syncPc = "idle"
    /\ items = <<>>
    /\ itemIndex = 1
    /\ totalSynced = 0
    /\ itemErrors = <<>>
    /\ syncResponse = [null |-> TRUE]
    /\ syncCalls = 0

\* No call of normalizeMerchant is under way
NormalizeIdle == rawDescription = "" /\ normalizedKey = ""

OthersIdle == NormalizeIdle /\ ClientIdle /\ SyncIdle

Null == [null |-> TRUE]

(***************************************************************************)
(* Generic helpers standing for Array.prototype methods.                   *)
(***************************************************************************)
Abs(x) == IF x < 0 THEN -x ELSE x

RECURSIVE SumSeq(_)
SumSeq(s) == IF s = <<>> THEN 0 ELSE Head(s) + SumSeq(Tail(s))

Range(s) == { s[i] : i \in DOMAIN s }

\* Array.prototype.filter is SelectSeq.
\* Array.prototype.sort is stable: elements are placed in their original
\* order, each one in front of the first element the comparator puts strictly
\* after it.  before is the set of pairs <<a, b>> with compare(a, b) < 0.
InsertSorted(x, t, before) ==
    LET later == { k \in DOMAIN t : <<x, t[k]>> \in before }
        p == IF later = {} THEN Len(t) + 1
             ELSE CHOOSE k \in later : \A j \in later : k <= j
    IN SubSeq(t, 1, p - 1) \o <<x>> \o SubSeq(t, p, Len(t))

sortStable(s, before) ==
    LET S[i \in 0..Len(s)] ==
            IF i = 0 THEN <<>> ELSE InsertSorted(s[i], S[i - 1], before)
    IN S[Len(s)]

(***************************************************************************)
(* Exact fractions standing for the JavaScript numbers that are not whole. *)
(***************************************************************************)
RECURSIVE GCD(_, _)
GCD(a, b) == IF b = 0 THEN a ELSE GCD(b, a % b)

\* The fraction n / d (d > 0), in lowest terms
Rat(n, d) == LET g == GCD(Abs(n), d) IN [num |-> n \div g, den |-> d \div g]
RatLess(a, b) == a.num * b.den < b.num * a.den
RatEq(a, b)   == a.num * b.den = b.num * a.den
RatLeq(a, b)  == a.num * b.den <= b.num * a.den
RatMul(a, b)  == Rat(a.num * b.num, a.den * b.den)

(***************************************************************************)
(* Characters.                                                             *)
(***************************************************************************)
CharAt(s, i) == SubSeq(s, i, i)

UpperChars == <<"A","B","C","D","E","F","G","H","I","J","K","L","M",
                "N","O","P","Q","R","S","T","U","V","W","X","Y","Z">>
LowerChars == <<"a","b","c","d","e","f","g","h","i","j","k","l","m",
                "n","o","p","q","r","s","t","u","v","w","x","y","z">>
DigitChars == <<"0","1","2","3","4","5","6","7","8","9">>

IsLower(c) == \E i \in DOMAIN LowerChars : LowerChars[i] = c
IsUpper(c) == \E i \in DOMAIN UpperChars : UpperChars[i] = c
IsDigit(c) == \E i \in DOMAIN DigitChars : DigitChars[i] = c
\* \s of a regular expression (the characters the model's inputs use)
IsSpace(c) == c \in {" ", "\t"}
\* \w of a regular expression: [A-Za-z0-9_]
IsWordChar(c) == IsLower(c) \/ IsUpper(c) \/ IsDigit(c) \/ c = "_"

LowerOf(c) ==
    IF IsUpper(c)
    THEN LowerChars[CHOOSE i \in DOMAIN UpperChars : UpperChars[i] = c]
    ELSE c

DigitVal(c) == (CHOOSE i \in DOMAIN DigitChars : DigitChars[i] = c) - 1

\* String.prototype.toLowerCase
RECURSIVE toLowerCase(_)
toLowerCase(s) ==
    IF Len(s) = 0 THEN ""
    ELSE LowerOf(CharAt(s, 1)) \o toLowerCase(Tail(s))

\* String.prototype.includes
includes(s, kw) ==
    \E i \in 1..(Len(s) - Len(kw) + 1) : SubSeq(s, i, i + Len(kw) - 1) = kw

(***************************************************************************)
(* normalizeMerchant, plaid.ts:45-53, one operator per replace() call.     *)
(***************************************************************************)
\* .replace(/[*#@]/g, " ")
RECURSIVE ReplaceSeparators(_)
ReplaceSeparators(s) ==
    IF Len(s) = 0 THEN ""
    ELSE (IF CharAt(s, 1) \in {"*", "#", "@"} THEN " " ELSE CharAt(s, 1))
         \o ReplaceSeparators(Tail(s))

\* Last index of the run of digits that starts at i.
RECURSIVE DigitRunEnd(_, _)
DigitRunEnd(s, i) ==
    IF i < Len(s) /\ IsDigit(CharAt(s, i + 1)) THEN DigitRunEnd(s, i + 1) ELSE i

\* .replace(/\b\d{5,}\b/g, ""): a match starts at a digit that follows a
\* non-word character (or the start), takes the whole run of digits, and needs
\* a non-word character (or the end) after it; scanning resumes after the run.
RECURSIVE RemoveDigitRunsFrom(_, _)
RemoveDigitRunsFrom(s, i) ==
    IF i > Len(s) THEN ""
    ELSE IF IsDigit(CharAt(s, i)) /\ (i = 1 \/ ~IsWordChar(CharAt(s, i - 1)))
         THEN LET j == DigitRunEnd(s, i)
                  matched == /\ j - i + 1 >= 5
                             /\ (j = Len(s) \/ ~IsWordChar(CharAt(s, j + 1)))
              IN (IF matched THEN "" ELSE SubSeq(s, i, j))
                 \o RemoveDigitRunsFrom(s, j + 1)
         ELSE CharAt(s, i) \o RemoveDigitRunsFrom(s, i + 1)

RemoveLongDigitRuns(s) == RemoveDigitRunsFrom(s, 1)

\* .replace(/[^a-z0-9\s]/g, " ")
RECURSIVE ReplaceSpecialChars(_)
ReplaceSpecialChars(s) ==
    IF Len(s) = 0 THEN ""
    ELSE LET c == CharAt(s, 1)
         IN (IF IsLower(c) \/ IsDigit(c) \/ IsSpace(c) THEN c ELSE " ")
            \o ReplaceSpecialChars(Tail(s))

\* .replace(/\s+/g, " ")
RECURSIVE CollapseWhitespace(_)
CollapseWhitespace(s) ==
    IF Len(s) = 0 THEN ""
    ELSE IF IsSpace(CharAt(s, 1))
         THEN IF Len(s) > 1 /\ IsSpace(CharAt(s, 2))
              THEN CollapseWhitespace(Tail(s))
              ELSE " " \o CollapseWhitespace(Tail(s))
         ELSE CharAt(s, 1) \o CollapseWhitespace(Tail(s))

\* String.prototype.trimEnd / trimStart / trim
RECURSIVE trimEnd(_)
trimEnd(s) ==
    IF Len(s) > 0 /\ IsSpace(CharAt(s, Len(s)))
    THEN trimEnd(SubSeq(s, 1, Len(s) - 1)) ELSE s

RECURSIVE trimStart(_)
trimStart(s) ==
    IF Len(s) > 0 /\ IsSpace(CharAt(s, 1)) THEN trimStart(Tail(s)) ELSE s

trim(s) == trimEnd(trimStart(s))

normalizeMerchant(description) ==
    trim(CollapseWhitespace(ReplaceSpecialChars(RemoveLongDigitRuns(
        ReplaceSeparators(toLowerCase(description))))))

\* plaid.ts:57-59
merchantPrefixKey(normalized) ==
    trimEnd(SubSeq(normalized, 1, IF Len(normalized) < 8 THEN Len(normalized) ELSE 8))

(***************************************************************************)
(* detectFrequency, plaid.ts:79-105.  mean = sum / n is kept as the pair   *)
(* (sum, n): mean >= a is sum >= a*n, |g - mean| <= t is |g*n - sum| <= t*n*)
(***************************************************************************)
\* gaps.every((g) => Math.abs(g - mean) <= tol)
Consistent(gs, tol) ==
    \A i \in DOMAIN gs : Abs(gs[i] * Len(gs) - SumSeq(gs)) <= tol * Len(gs)

\* mean >= lo && mean <= hi
MeanInRange(gs, lo, hi) ==
    SumSeq(gs) >= lo * Len(gs) /\ SumSeq(gs) <= hi * Len(gs)

\* A classifier that reports the latest gap as the interval
RoundMean_LastGap(gs) == gs[Len(gs)]

\* Math.round(mean): the nearest integer, halves upwards
RoundMean(gs) == (2 * SumSeq(gs) + Len(gs)) \div (2 * Len(gs))

\* detectFrequency with the biweekly band starting at 10 instead of 11
detectFrequency_WideBiweekly(gs) ==
    IF Len(gs) = 0 THEN Null
    ELSE IF MeanInRange(gs, 4, 10) /\ Consistent(gs, 3)
         THEN [frequency |-> "weekly", intervalDays |-> RoundMean(gs)]
    ELSE IF MeanInRange(gs, 10, 17) /\ Consistent(gs, 5)
         THEN [frequency |-> "biweekly", intervalDays |-> RoundMean(gs)]
    ELSE IF MeanInRange(gs, 25, 35) /\ Consistent(gs, 7)
         THEN [frequency |-> "monthly", intervalDays |-> RoundMean(gs)]
    ELSE Null

\* detectFrequency where a list that failed the weekly check is accepted by
\* the biweekly band on its tolerance alone, and one that failed the biweekly
\* check by the monthly band
detectFrequency_NextBandByTolerance(gs) ==
    IF Len(gs) = 0 THEN Null
    ELSE IF MeanInRange(gs, 4, 10) /\ Consistent(gs, 3)
         THEN [frequency |-> "weekly", intervalDays |-> RoundMean(gs)]
    ELSE IF (MeanInRange(gs, 4, 10) \/ MeanInRange(gs, 11, 17)) /\ Consistent(gs, 5)
         THEN [frequency |-> "biweekly", intervalDays |-> RoundMean(gs)]
    ELSE IF (MeanInRange(gs, 11, 17) \/ MeanInRange(gs, 25, 35)) /\ Consistent(gs, 7)
         THEN [frequency |-> "monthly", intervalDays |-> RoundMean(gs)]
    ELSE Null

\* plaid.ts:79-105
detectFrequency(gs) ==
    IF Len(gs) = 0 THEN Null
    ELSE IF MeanInRange(gs, 4, 10) /\ Consistent(gs, 3)
         THEN [frequency |-> "weekly", intervalDays |-> RoundMean(gs)]
    ELSE IF MeanInRange(gs, 11, 17) /\ Consistent(gs, 5)
         THEN [frequency |-> "biweekly", intervalDays |-> RoundMean(gs)]
    ELSE IF MeanInRange(gs, 25, 35) /\ Consistent(gs, 7)
         THEN [frequency |-> "monthly", intervalDays |-> RoundMean(gs)]
    ELSE Null

(***************************************************************************)
(* The rows the transactions table may hold.  One household has a          *)
(* streaming subscription under two descriptors, an electricity bill, and  *)
(* the same utility under a longer descriptor; another has a music         *)
(* subscription of 15.99 on the first of each month, a refund of it, a     *)
(* filling station whose descriptor normalizes to two characters, and      *)
(* three water bills within one month.                                     *)
(* A row (database.types.ts:34-43) is a record                             *)
(*   [id, date, description, category, subcategory, amount, type];         *)
(* amount is in cents.                                                     *)
(***************************************************************************)
Tx(id, date, description, category, subcategory, amount, type) ==
    [id |-> id, date |-> date, description |-> description, category |-> category,
     subcategory |-> subcategory, amount |-> amount, type |-> type]

Ledger ==
    << Tx("n1", "2026-01-01", "NETFLIX.COM*1234567", "Entertainment", "Streaming", 10000, "expense"),
       Tx("n2", "2026-01-08", "NETFLIX.COM*1234567", "Entertainment", "Streaming", 10000, "expense"),
       Tx("n3", "2026-01-15", "Netflix.com #7654321", "Cable & Internet", "", 10000, "transfer"),
       Tx("n4", "2026-01-29", "NETFLIX.COM*1234567", "Entertainment", "Streaming", 10000, "expense"),
       Tx("n6", "2026-03-01", "NETFLIX.COM*1234567", "Entertainment", "Streaming", 10000, "expense"),
       Tx("n7", "2026-04-01", "NETFLIX.COM*1234567", "Entertainment", "Streaming", 14500, "expense"),
       Tx("n8", "2026-04-01", "NETFLIX.COM*1234567", "Cable & Internet", "", 14500, "expense"),
       Tx("n9", "2026-01-15", "NETFLIX.COM*1234567", "Income", "Refund", 10000, "income"),
       Tx("d1", "2026-01-05", "DUKE ENERGY", "Bills", "Electric", 10000, "expense"),
       Tx("d2", "2026-02-05", "DUKE ENERGY", "Bills", "Electric", 10000, "expense"),
       Tx("d3", "2026-03-05", "DUKE ENERGY", "Bills", "Electric", 10000, "expense"),
       Tx("d4", "2026-04-05", "DUKE ENERGY", "Bills", "Electric", 14500, "expense"),
       Tx("e1", "2026-01-31", "Duke Energy PMT #88", "Utilities", "", 6000, "expense"),
       Tx("e2", "2026-02-01", "Duke Energy PMT #88", "Utilities", "", 14000, "expense"),
       Tx("h1", "2026-01-01", "SPOTIFY USA", "Entertainment", "Music", 1599, "expense"),
       Tx("h2", "2026-02-01", "SPOTIFY USA", "Entertainment", "Music", 1599, "expense"),
       Tx("h3", "2026-03-01", "SPOTIFY USA", "Entertainment", "Music", 1599, "expense"),
       Tx("h9", "2026-02-15", "SPOTIFY USA", "Income", "Refund", 1599, "income"),
       Tx("s1", "2026-01-10", "BP#1234567", "Gas", "", 4000, "expense"),
       Tx("s2", "2026-02-10", "BP#1234567", "Gas", "", 4200, "expense"),
       Tx("s3", "2026-03-10", "BP#1234567", "Gas", "", 4100, "expense"),
       Tx("w1", "2026-01-05", "CITY WATER", "Utilities", "Water", 5000, "expense"),
       Tx("w2", "2026-01-06", "CITY WATER", "Utilities", "Water", 5500, "expense"),
       Tx("w3", "2026-01-26", "CITY WATER", "Utilities", "Water", 4500, "expense"),
       Tx("z1", "2026-01-03", "FREE TRIAL", "Entertainment", "", 0, "expense"),
       Tx("z2", "2026-02-03", "FREE TRIAL", "Entertainment", "", 0, "expense"),
       Tx("z3", "2026-03-03", "FREE TRIAL", "Entertainment", "", 0, "expense"),
       Tx("z4", "2026-04-03", "FREE TRIAL", "Entertainment", "", 1, "expense"),
       Tx("z5", "2026-05-03", "FREE TRIAL", "Entertainment", "", 1, "expense"),
       Tx("z6", "2026-06-03", "FREE TRIAL", "Entertainment", "", 1, "expense"),
       Tx("u1", "2026-01-20", "TOWN SEWER", "Utilities", "Sewer", 0, "expense"),
       Tx("u2", "2026-02-20", "TOWN SEWER", "Utilities", "Sewer", 0, "expense"),
       Tx("u3", "2026-03-20", "TOWN SEWER", "Utilities", "Sewer", 1, "expense") >>

\* The ids of the two households' rows
Households ==
    { {"n1", "n2", "n3", "n4", "n6", "n7", "n8", "n9",
       "d1", "d2", "d3", "d4", "e1", "e2"},
      {"h1", "h2", "h3", "h9", "s1", "s2", "s3", "w1", "w2", "w3"} }

\* The ids of the rows of a third household, whose charges are of zero
\* cents (a free trial, a waived bill) or of one cent
SmallAmountRows == {"z1", "z2", "z3", "z4", "z5", "z6", "u1", "u2", "u3"}

LedgerIds == { Ledger[i].id : i \in DOMAIN Ledger }
LedgerDates == { Ledger[i].date : i \in DOMAIN Ledger }
LedgerDescriptions == { Ledger[i].description : i \in DOMAIN Ledger }

(***************************************************************************)
(* Dates.  new Date(str + "T00:00:00") reads the string as local midnight; *)
(* getTime() is the instant, here in hours since 1970-01-01T00:00Z;        *)
(* toISOString() prints the UTC date of the instant.                       *)
(***************************************************************************)
IsLeap(y) == (y % 4 = 0 /\ y % 100 # 0) \/ y % 400 = 0

DaysInMonth(y, m) ==
    IF m = 2 THEN (IF IsLeap(y) THEN 29 ELSE 28)
    ELSE IF m \in {4, 6, 9, 11} THEN 30 ELSE 31

\* Days of year y before its month m
DaysBeforeMonth(y, m) ==
    LET common == <<0, 31, 59, 90, 120, 151, 181, 212, 243, 273, 304, 334>>
    IN common[m] + (IF m > 2 /\ IsLeap(y) THEN 1 ELSE 0)

\* Leap years before year y (proleptic Gregorian count)
LeapsBefore(y) == ((y - 1) \div 4) - ((y - 1) \div 100) + ((y - 1) \div 400)

\* Days from 1970-01-01 to January 1st of year y
DaysBeforeYear(y) == 365 * (y - 1970) + LeapsBefore(y) - LeapsBefore(1970)

\* Days from 1970-01-01 to the civil date y-m-d.
EpochDay(y, m, d) == DaysBeforeYear(y) + DaysBeforeMonth(y, m) + d - 1

\* The fields of "YYYY-MM-DD"
YearOf(date)  == DigitVal(CharAt(date, 1)) * 1000 + DigitVal(CharAt(date, 2)) * 100
                 + DigitVal(CharAt(date, 3)) * 10 + DigitVal(CharAt(date, 4))
MonthOf(date) == DigitVal(CharAt(date, 6)) * 10 + DigitVal(CharAt(date, 7))
DayOf(date)   == DigitVal(CharAt(date, 9)) * 10 + DigitVal(CharAt(date, 10))

DateToEpochDay(date) == EpochDay(YearOf(date), MonthOf(date), DayOf(date))

\* DateToEpochDay, tabulated once over the ledger's dates
EpochDayOf == [date \in LedgerDates |-> DateToEpochDay(date)]

\* new Date(date + "T00:00:00").getTime(), in hours, in a zone tz hours east of UTC
LocalMidnight(date, tz) == EpochDayOf[date] * 24 - tz

Pad2(n) == DigitChars[(n \div 10) + 1] \o DigitChars[(n % 10) + 1]
Pad4(n) == Pad2(n \div 100) \o Pad2(n % 100)

\* Years the model's dates fall in
Years == 2025..2027

\* The civil date of a day number, printed as "YYYY-MM-DD"
FormatEpochDay(n) ==
    LET y == CHOOSE yy \in Years :
                 DaysBeforeYear(yy) <= n /\ n < DaysBeforeYear(yy + 1)
        m == CHOOSE mm \in 1..12 :
                 /\ DaysBeforeMonth(y, mm) <= n - DaysBeforeYear(y)
                 /\ n - DaysBeforeYear(y) < DaysBeforeMonth(y, mm) + DaysInMonth(y, mm)
        d == n - DaysBeforeYear(y) - DaysBeforeMonth(y, m) + 1
    IN Pad4(y) \o "-" \o Pad2(m) \o "-" \o Pad2(d)

\* d.toISOString().split("T")[0] of an instant in hours
toISODate(hours) == FormatEpochDay(hours \div 24)

\* plaid.ts:67-71; both instants are local midnights, whole days apart
daysBetween(a, b, tz) == Abs((LocalMidnight(b, tz) - LocalMidnight(a, tz)) \div 24)

\* plaid.ts:73-77; setDate moves the local calendar date, the time stays 00:00
addDays(dateStr, days, tz) == toISODate(LocalMidnight(dateStr, tz) + days * 24)

\* a.date.localeCompare(b.date) < 0: the strings have one format, so the
\* order of the strings is the order of (year, month, day)
DateOrdinal == [date \in LedgerDates |->
                   YearOf(date) * 10000 + MonthOf(date) * 100 + DayOf(date)]

DateBefore(a, b) == DateOrdinal[a] < DateOrdinal[b]

(***************************************************************************)
(* The detector, plaid.ts:38-252.                                          *)
(***************************************************************************)
\* plaid.ts:39-43
UTILITY_KEYWORDS ==
    <<"utilities", "electric", "electricity", "gas", "natural gas",
      "water", "internet", "broadband", "cable", "sewer", "trash", "garbage",
      "telecom", "telephone">>

\* plaid.ts:61-65
isUtility(tx) ==
    LET sub == toLowerCase(tx.subcategory)
        cat == toLowerCase(tx.category)
    IN \E k \in DOMAIN UTILITY_KEYWORDS :
           includes(sub, UTILITY_KEYWORDS[k]) \/ includes(cat, UTILITY_KEYWORDS[k])

\* isUtility and normalizeMerchant, tabulated once over the ledger
UtilityIds == { Ledger[i].id : i \in { j \in DOMAIN Ledger : isUtility(Ledger[j]) } }
IsUtilityTx(tx) == tx.id \in UtilityIds
NormalizedOf == [d \in LedgerDescriptions |-> normalizeMerchant(d)]
PrefixKeyOf == [d \in LedgerDescriptions |-> merchantPrefixKey(NormalizedOf[d])]

\* plaid.ts:107-112: the value counted most often; among equally frequent
\* values the one seen first (Map keeps insertion order, sort is stable)
mostCommon(values) ==
    IF Len(values) = 0 THEN Null
    ELSE LET count(v) == Cardinality({ i \in DOMAIN values : values[i] = v })
             first(v) == CHOOSE i \in DOMAIN values :
                             values[i] = v /\ \A j \in 1..(i - 1) : values[j] # v
         IN CHOOSE v \in Range(values) :
                \A w \in Range(values) :
                    \/ count(v) > count(w)
                    \/ count(v) = count(w) /\ first(v) <= first(w)

\* A count of the distinct dates
distinctMonths_ByDate(txns) == Cardinality({ txns[i].date : i \in DOMAIN txns })

\* plaid.ts:114-116: date.slice(0, 7) is "YYYY-MM"
distinctMonths(txns) == Cardinality({ SubSeq(txns[i].date, 1, 7) : i \in DOMAIN txns })

\* The keys of a Map that was filled with keys[1], keys[2], ... in this
\* order: each key once, in the order of first insertion.
MapKeys(keys) ==
    LET K[i \in 0..Len(keys)] ==
            IF i = 0 THEN <<>>
            ELSE IF \E j \in 1..(i - 1) : keys[j] = keys[i]
                 THEN K[i - 1] ELSE Append(K[i - 1], keys[i])
    IN K[Len(keys)]

\* sorted.map((t) => Math.abs(t.amount))
AbsAmounts(sorted) == [i \in 1..Len(sorted) |-> Abs(sorted[i].amount)]

\* A detector without the guard on the mean
MeanBelowOneCent_Never(amounts) == FALSE

\* meanAmount < 0.01, the mean of n amounts in cents being sum / n cents
MeanBelowOneCent(amounts) == SumSeq(amounts) < Len(amounts)

\* amounts.every((a) => Math.abs(a - meanAmount) / meanAmount <= pct / 100);
\* with a mean of zero every amount is zero, the ratio is 0 / 0, NaN, and the
\* comparison is false
withinVariance(amounts, pct) ==
    \A i \in DOMAIN amounts :
        /\ SumSeq(amounts) # 0
        /\ Abs(amounts[i] * Len(amounts) - SumSeq(amounts)) * 100
               <= pct * SumSeq(amounts)

\* A detector whose Pass 1 allows every group the utilities' 45%
varianceThreshold_Flat45(hasUtility) == 45

\* plaid.ts:147
varianceThreshold(hasUtility) == IF hasUtility THEN 45 ELSE 20

\* plaid.ts:154-157
GapsOf(sorted, tz) ==
    [i \in 1..(Len(sorted) - 1) |-> daysBetween(sorted[i].date, sorted[i + 1].date, tz)]

\* A detector that takes a fortnight for half a month
monthlyMultiplier_TwoFortnights(frequency) ==
    IF frequency = "weekly" THEN Rat(433, 100)
    ELSE IF frequency = "biweekly" THEN Rat(200, 100)
    ELSE Rat(100, 100)

\* plaid.ts:166-167, as hundredths
monthlyMultiplier(frequency) ==
    IF frequency = "weekly" THEN Rat(433, 100)
    ELSE IF frequency = "biweekly" THEN Rat(217, 100)
    ELSE Rat(100, 100)

SortByDate(txns) ==
    sortStable(txns, { p \in Range(txns) \X Range(txns) : DateBefore(p[1].date, p[2].date) })

NonEmpty(values) == SelectSeq(values, LAMBDA v : v # "")

\* A RecurringTransaction (plaid.ts:25-36).  averageAmount and monthlyAmount
\* are fractions of cents.  pass and txIds are not fields of the program's
\* object: they record which loop pushed the entry and the transactions of
\* its group, so that properties can refer to them.
Entry(txns, sorted, frequency, intervalDays, nextPredictedDate, monthlyAmount, pass) ==
    [ merchant          |-> sorted[Len(sorted)].description,
      averageAmount     |-> Rat(SumSeq(AbsAmounts(sorted)), Len(sorted)),
      frequency         |-> frequency,
      intervalDays      |-> intervalDays,
      lastDate          |-> sorted[Len(sorted)].date,
      nextPredictedDate |-> nextPredictedDate,
      monthlyAmount     |-> monthlyAmount,
      occurrences       |-> Len(txns),
      category          |-> mostCommon(NonEmpty([i \in DOMAIN txns |-> txns[i].category])),
      subcategory       |-> mostCommon(NonEmpty([i \in DOMAIN txns |-> txns[i].subcategory])),
      pass              |-> pass,
      txIds             |-> { txns[i].id : i \in DOMAIN txns } ]

\* A Pass 1 that is content with two occurrences
Pass1Entry_FloorTwo(txns, tz) ==
    IF Len(txns) < 2 THEN Null
    ELSE
    LET sorted     == SortByDate(txns)
        amounts    == AbsAmounts(sorted)
        meanAmount == Rat(SumSeq(amounts), Len(amounts))
        hasUtility == \E i \in DOMAIN txns : IsUtilityTx(txns[i])
        fr         == detectFrequency(GapsOf(sorted, tz))
    IN IF MeanBelowOneCent(amounts) THEN Null
       ELSE IF ~withinVariance(amounts, varianceThreshold(hasUtility)) THEN Null
       ELSE IF fr = Null THEN Null
       ELSE Entry(txns, sorted, fr.frequency, fr.intervalDays,
                  addDays(sorted[Len(sorted)].date, fr.intervalDays, tz),
                  RatMul(meanAmount, monthlyMultiplier(fr.frequency)), "pass1")

\* plaid.ts:137-190, the body of the Pass 1 loop for one group: the entry it
\* pushes, or Null when it continues without pushing
Pass1Entry(txns, tz) ==
    IF Len(txns) < 3 THEN Null
    ELSE
    LET sorted     == SortByDate(txns)
        amounts    == AbsAmounts(sorted)
        meanAmount == Rat(SumSeq(amounts), Len(amounts))
        hasUtility == \E i \in DOMAIN txns : IsUtilityTx(txns[i])
        fr         == detectFrequency(GapsOf(sorted, tz))
    IN IF MeanBelowOneCent(amounts) THEN Null
       ELSE IF ~withinVariance(amounts, varianceThreshold(hasUtility)) THEN Null
       ELSE IF fr = Null THEN Null
       ELSE Entry(txns, sorted, fr.frequency, fr.intervalDays,
                  addDays(sorted[Len(sorted)].date, fr.intervalDays, tz),
                  RatMul(meanAmount, monthlyMultiplier(fr.frequency)), "pass1")

\* plaid.ts:210-248, the body of the Pass 2 loop for one group
Pass2Entry(txns, tz) ==
    IF Len(txns) < 2 THEN Null
    ELSE
    LET sorted     == SortByDate(txns)
        amounts    == AbsAmounts(sorted)
        meanAmount == Rat(SumSeq(amounts), Len(amounts))
    IN IF distinctMonths(sorted) < 2 THEN Null
       ELSE IF MeanBelowOneCent(amounts) THEN Null
       ELSE IF ~withinVariance(amounts, 45) THEN Null
       ELSE Entry(txns, sorted, "monthly", 30,
                  addDays(sorted[Len(sorted)].date, 30, tz), meanAmount, "pass2")

\* plaid.ts:137-152: the Pass 1 loop evaluates withinVariance for this group
Pass1ChecksVariance(txns) ==
    /\ Len(txns) >= 3
    /\ ~MeanBelowOneCent(AbsAmounts(SortByDate(txns)))

\* plaid.ts:210-226: the Pass 2 loop evaluates withinVariance for this group
Pass2ChecksVariance(txns) ==
    /\ Len(txns) >= 2
    /\ distinctMonths(SortByDate(txns)) >= 2
    /\ ~MeanBelowOneCent(AbsAmounts(SortByDate(txns)))

\* A detector that analyses income as well
Expenses_All(txs) == txs

\* plaid.ts:121
Expenses(txs) == SelectSeq(txs, LAMBDA t : t.type # "income")

\* A Pass 1 that groups keys of any length
ExactGroups_NoFloor(expenses) ==
    LET keys == MapKeys([i \in DOMAIN expenses |-> NormalizedOf[expenses[i].description]])
    IN [k \in 1..Len(keys) |->
          SelectSeq(expenses, LAMBDA t : NormalizedOf[t.description] = keys[k])]

\* plaid.ts:126-132: the groups of exactGroups, in the Map's order
ExactGroups(expenses) ==
    LET keyed == SelectSeq(expenses, LAMBDA t : Len(NormalizedOf[t.description]) >= 3)
        keys  == MapKeys([i \in DOMAIN keyed |-> NormalizedOf[keyed[i].description]])
    IN [k \in 1..Len(keys) |->
          SelectSeq(keyed, LAMBDA t : NormalizedOf[t.description] = keys[k])]

\* The entries a loop pushed, given what its body made of each group: one
\* per group that did not `continue`
Pushed(outcomes) == SelectSeq(outcomes, LAMBDA e : e # Null)

\* plaid.ts:189: the ids of the transactions of every group Pass 1 pushed
CapturedTxIds(pass1) == UNION { pass1[i].txIds : i \in DOMAIN pass1 }

\* A Pass 2 that looks at every transaction Pass 1 left
UtilityTxns_AnyLeftOver(expenses, capturedTxIds) ==
    SelectSeq(expenses, LAMBDA t : t.id \notin capturedTxIds)

\* A Pass 2 that looks at every utility transaction, captured or not
UtilityTxns_IgnoreCaptured(expenses, capturedTxIds) ==
    SelectSeq(expenses, LAMBDA t : IsUtilityTx(t))

\* plaid.ts:197-199
UtilityTxns(expenses, capturedTxIds) ==
    SelectSeq(expenses, LAMBDA t : IsUtilityTx(t) /\ t.id \notin capturedTxIds)

\* plaid.ts:201-208
PrefixGroups(utilityTxns) ==
    LET keyed == SelectSeq(utilityTxns, LAMBDA t : Len(NormalizedOf[t.description]) >= 3)
        keys  == MapKeys([i \in DOMAIN keyed |-> PrefixKeyOf[keyed[i].description]])
    IN [k \in 1..Len(keys) |->
          SelectSeq(keyed, LAMBDA t : PrefixKeyOf[t.description] = keys[k])]

\* b.monthlyAmount - a.monthlyAmount < 0
ByMonthlyAmountDesc(a, b) == RatLess(b.monthlyAmount, a.monthlyAmount)

\* list.sort((a, b) => b.monthlyAmount - a.monthlyAmount)
SortByMonthlyAmount(list) ==
    sortStable(list, { p \in Range(list) \X Range(list) : ByMonthlyAmountDesc(p[1], p[2]) })

\* A detector that returns the entries in the order the passes pushed them
detectRecurringTransactions_Unsorted(txs, tz) ==
    LET expenses     == Expenses(txs)
        exactGroups  == ExactGroups(expenses)
        pass1        == Pushed([g \in DOMAIN exactGroups |-> Pass1Entry(exactGroups[g], tz)])
        prefixGroups == PrefixGroups(UtilityTxns(expenses, CapturedTxIds(pass1)))
        pass2        == Pushed([g \in DOMAIN prefixGroups |-> Pass2Entry(prefixGroups[g], tz)])
    IN pass1 \o pass2

\* plaid.ts:118-252
detectRecurringTransactions(txs, tz) ==
    LET expenses     == Expenses(txs)
        exactGroups  == ExactGroups(expenses)
        pass1        == Pushed([g \in DOMAIN exactGroups |-> Pass1Entry(exactGroups[g], tz)])
        prefixGroups == PrefixGroups(UtilityTxns(expenses, CapturedTxIds(pass1)))
        pass2        == Pushed([g \in DOMAIN prefixGroups |-> Pass2Entry(prefixGroups[g], tz)])
    IN SortByMonthlyAmount(pass1 \o pass2)

\* The groups of the two loops of a call, and the lists of amounts for which
\* the call evaluates the variance ratio, each a division by the list's mean
Pass1Groups(txs) == Range(ExactGroups(Expenses(txs)))

Pass2Groups(txs, tz) ==
    LET expenses    == Expenses(txs)
        exactGroups == ExactGroups(expenses)
        pass1       == Pushed([g \in DOMAIN exactGroups |-> Pass1Entry(exactGroups[g], tz)])
    IN Range(PrefixGroups(UtilityTxns(expenses, CapturedTxIds(pass1))))

VarianceDivisions(txs, tz) ==
    { AbsAmounts(SortByDate(g)) : g \in { h \in Pass1Groups(txs) : Pass1ChecksVariance(h) } }
    \cup
    { AbsAmounts(SortByDate(g)) : g \in { h \in Pass2Groups(txs, tz) : Pass2ChecksVariance(h) } }

(***************************************************************************)
(* lib/recurring.ts is imported by the page and is not among the sources:  *)
(* toMerchantKey, the merchantKey field and buildManualRecurring follow    *)
(* the specification (sections 3 and 4.4).                                 *)
(***************************************************************************)
\* "merchant_key is the normalized merchant description"
toMerchantKey(description) == NormalizedOf[description]

\* The detector's entry with its merchantKey, the normalized key of the
\* entry's merchant
WithMerchantKey(r) ==
    [f \in DOMAIN r \cup {"merchantKey"} |->
        IF f = "merchantKey" THEN toMerchantKey(r.merchant) ELSE r[f]]

\* The entry synthesized for a force-included merchant: the derivation rules
\* of Pass 1 without its variance and frequency gates; the frequency is the
\* classifier's when it gives one, monthly / 30 days otherwise
buildManualRecurring(matching, key, tz) ==
    LET sorted     == SortByDate(matching)
        amounts    == AbsAmounts(sorted)
        meanAmount == Rat(SumSeq(amounts), Len(amounts))
        found      == detectFrequency(GapsOf(sorted, tz))
        fr         == IF found = Null
                      THEN [frequency |-> "monthly", intervalDays |-> 30]
                      ELSE found
        e          == Entry(matching, sorted, fr.frequency, fr.intervalDays,
                            addDays(sorted[Len(sorted)].date, fr.intervalDays, tz),
                            RatMul(meanAmount, monthlyMultiplier(fr.frequency)), "manual")
    IN [f \in DOMAIN e \cup {"merchantKey"} |->
           IF f = "merchantKey" THEN key ELSE e[f]]

(***************************************************************************)
(* RecurringPage, page.tsx:11-53.  An override row is                      *)
(* [merchant_key, is_recurring]; the fetched rows are a sequence.          *)
(***************************************************************************)
\* A page that drops the merchants the user force-included instead
ApplyExcludes_WrongFlag(list, ovs) ==
    LET includedKeys == { ovs[i].merchant_key : i \in { j \in DOMAIN ovs : ovs[j].is_recurring } }
    IN SelectSeq(list, LAMBDA r : r.merchantKey \notin includedKeys)

\* A page that remembers the exclusions of the request before
ApplyExcludes_Sticky(list, ovs) ==
    LET excludedKeys == { ovs[i].merchant_key : i \in { j \in DOMAIN ovs : ~ovs[j].is_recurring } }
                        \cup { overrides[i].merchant_key :
                                 i \in { j \in DOMAIN overrides : ~overrides[j].is_recurring } }
    IN SelectSeq(list, LAMBDA r : r.merchantKey \notin excludedKeys)

\* page.tsx:33-36
ApplyExcludes(list, ovs) ==
    LET excludedKeys == { ovs[i].merchant_key : i \in { j \in DOMAIN ovs : ~ovs[j].is_recurring } }
    IN SelectSeq(list, LAMBDA r : r.merchantKey \notin excludedKeys)

\* A page that synthesizes from the expenses only, leaving transfers out
Matching_ExpensesOnly(txs, key) ==
    SelectSeq(txs, LAMBDA tx : tx.type = "expense" /\ toMerchantKey(tx.description) = key)

\* page.tsx:42-44
Matching(txs, key) ==
    SelectSeq(txs, LAMBDA tx : tx.type # "income" /\ toMerchantKey(tx.description) = key)

\* A page that synthesizes an entry for every force-included merchant with
\* transactions, detected or not
ApplyIncludes_NoExistingCheck(list, ovs, txs, tz) ==
    LET forced == SelectSeq(ovs, LAMBDA o : o.is_recurring)
        L[i \in 0..Len(forced)] ==
            IF i = 0 THEN list
            ELSE IF Len(Matching(txs, forced[i].merchant_key)) = 0 THEN L[i - 1]
            ELSE Append(L[i - 1],
                        buildManualRecurring(Matching(txs, forced[i].merchant_key),
                                             forced[i].merchant_key, tz))
    IN L[Len(forced)]

\* page.tsx:39-47: existingKeys is computed once, before the loop
ApplyIncludes(list, ovs, txs, tz) ==
    LET existingKeys == { list[i].merchantKey : i \in DOMAIN list }
        forced == SelectSeq(ovs, LAMBDA o : o.is_recurring)
        L[i \in 0..Len(forced)] ==
            IF i = 0 THEN list
            ELSE IF forced[i].merchant_key \in existingKeys THEN L[i - 1]
            ELSE IF Len(Matching(txs, forced[i].merchant_key)) = 0 THEN L[i - 1]
            ELSE Append(L[i - 1],
                        buildManualRecurring(Matching(txs, forced[i].merchant_key),
                                             forced[i].merchant_key, tz))
    IN L[Len(forced)]

\* Time zones of the server process, in hours east of UTC.  A zone west of
\* UTC gives what UTC gives: local midnight is then the same UTC date.
TZOffsets == {0, 1}

\* Most rows one request sees
MaxTx == 5

\* getTransactionsByDateRange orders by date, descending (the order of rows of
\* one date is the ledger's)
FetchedRows(ids) ==
    LET rows == SelectSeq(Ledger, LAMBDA t : t.id \in ids)
    IN sortStable(rows, { p \in Range(rows) \X Range(rows) : DateBefore(p[2].date, p[1].date) })

\* Every entry of the detector's output with its merchantKey
Detected(txs, tz) ==
    LET raw == detectRecurringTransactions(txs, tz)
    IN [i \in DOMAIN raw |-> WithMerchantKey(raw[i])]

\* page.tsx:30-50: the list the page renders from the rows and the overrides
\* it fetched
PageList(txs, ovs, tz) ==
    LET det  == Detected(txs, tz)
        kept == ApplyExcludes(det, ovs)
    IN SortByMonthlyAmount(ApplyIncludes(kept, ovs, txs, tz))

\* A settled promise
Fulfilled(value) == [status |-> "fulfilled", value |-> value]
Rejected == [status |-> "rejected", value |-> <<>>]

\* part_013:90-101: the rows of the table, or a rejection when the query
\* reports an error
getRecurringOverrides(store, fails) ==
    IF fails THEN Rejected ELSE Fulfilled(store)

\* A page that awaits the override fetch as it settles
CatchEmpty_Uncaught(promise) == promise

\* page.tsx:27: promise.catch(() => [])
CatchEmpty(promise) ==
    IF promise.status = "rejected" THEN Fulfilled(<<>>) ELSE promise

\* One request for the page.  Awaiting a rejected promise throws: the
\* request fails.  The statements of page.tsx:30-50 follow one another, each
\* on the value the one before it left: det after line 30, kept after the
\* exclusions, list after the inclusions.
RecurringPage ==
    /\ pc = "start"
    /\ \E det \in { Detected(transactions, zone) }, fails \in BOOLEAN :
          \E fetched \in { CatchEmpty(getRecurringOverrides(overrideStore, fails)) } :
             /\ fetchFails' = fails
             /\ IF fetched.status = "rejected"
                THEN /\ pc' = "failed"
                     /\ UNCHANGED <<overrides, detected, recurring>>
                ELSE \E ovs \in { fetched.value } :
                     \E kept \in { ApplyExcludes(det, ovs) } :
                     \E list \in { ApplyIncludes(kept, ovs, transactions, zone) } :
                        /\ overrides' = ovs
                        /\ detected' = det
                        /\ recurring' = SortByMonthlyAmount(list)
                        /\ pc' = "done"
    /\ served' = served + 1
    /\ UNCHANGED <<transactions, overrideStore, gaps, frequencyResult, zone, log>>
    /\ UNCHANGED otherVars

(***************************************************************************)
(* Inputs of one request.                                                  *)
(***************************************************************************)
\* Keys the user has decided about
OverrideKeys == { "netflix com", "duke energy" }

OverrideRows == [merchant_key : OverrideKeys, is_recurring : BOOLEAN]

\* A table without the unique constraint: two rows may carry one key
OverrideStores_DuplicateKeys ==
    {<<>>} \cup { <<r>> : r \in OverrideRows } \cup (OverrideRows \X OverrideRows)

\* merchant_key is unique in recurring_overrides
OverrideStores ==
    {<<>>} \cup { <<r>> : r \in OverrideRows }
           \cup { p \in OverrideRows \X OverrideRows :
                      p[1].merchant_key = "netflix com" /\ p[2].merchant_key = "duke energy" }

InitPage ==
    /\ \E household \in Households :
          \E ids \in SUBSET household :
             /\ Cardinality(ids) <= MaxTx
             /\ transactions = FetchedRows(ids)
    /\ overrideStore \in OverrideStores
    /\ zone \in TZOffsets
    /\ log = <<>>
    /\ served = 0
    /\ OthersIdle
    /\ fetchFails = FALSE
    /\ overrides = <<>>
    /\ detected = <<>>
    /\ recurring = <<>>
    /\ pc = "start"
    /\ gaps = <<>>
    /\ frequencyResult = Null

Init == InitPage

Next == RecurringPage

Spec == Init /\ [][Next]_vars

(***************************************************************************)
(* detectFrequency on its own: one call on a list of gaps.                 *)
(***************************************************************************)
\* Gap lengths in days, around the edges of the three bands
GapValues == {0, 1, 4, 7, 10, 11, 13, 14, 15, 17, 20, 25, 29, 30, 31, 35, 36, 42}

\* Longest gap list
MaxGaps == 3

GapLists == UNION { [1..n -> GapValues] : n \in 0..MaxGaps }

InitFrequency ==
    /\ gaps \in GapLists
    /\ frequencyResult = Null
    /\ pc = "start"
    /\ transactions = <<>>
    /\ overrideStore = <<>>
    /\ fetchFails = FALSE
    /\ overrides = <<>>
    /\ detected = <<>>
    /\ recurring = <<>>
    /\ zone = 0
    /\ log = <<>>
    /\ served = 0
    /\ OthersIdle

DetectFrequencyCall ==
    /\ pc = "start"
    /\ frequencyResult' = detectFrequency(gaps)
    /\ pc' = "done"
    /\ UNCHANGED <<transactions, overrideStore, fetchFails, overrides, detected,
                   recurring, gaps, zone, log, served>>
    /\ UNCHANGED otherVars

NextFrequency == DetectFrequencyCall

SpecFrequency == InitFrequency /\ [][NextFrequency]_vars

(***************************************************************************)
(* One server process answering request after request (page.tsx:9: the     *)
(* page is rendered anew for each).  What the request before left in       *)
(* detected, recurring and overrides stays where it is until the next one  *)
(* assigns them; the table may have changed in between.                    *)
(***************************************************************************)
\* Most rows a request sees, and most requests, in these histories
MaxRepeatTx == 2
MaxRequests == 2

InitRepeat ==
    /\ \E household \in Households :
          \E ids \in SUBSET household :
             /\ Cardinality(ids) <= MaxRepeatTx
             /\ transactions = FetchedRows(ids)
    /\ overrideStore \in OverrideStores
    /\ zone \in TZOffsets
    /\ log = <<>>
    /\ served = 0
    /\ OthersIdle
    /\ fetchFails = FALSE
    /\ overrides = <<>>
    /\ detected = <<>>
    /\ recurring = <<>>
    /\ pc = "start"
    /\ gaps = <<>>
    /\ frequencyResult = Null

\* The next request arrives
NewRequest ==
    /\ pc = "done"
    /\ served < MaxRequests
    /\ pc' = "start"
    /\ overrideStore' \in OverrideStores
    /\ UNCHANGED <<transactions, fetchFails, overrides, detected, recurring, gaps,
                   frequencyResult, zone, log, served>>
    /\ UNCHANGED otherVars

NextRepeat == RecurringPage \/ NewRequest

SpecRepeat == InitRepeat /\ [][NextRepeat]_vars

(***************************************************************************)
(* The overrides route (part_003): POST upserts a row, DELETE removes it.  *)
(* overrideStore is the table in the order getRecurringOverrides returns   *)
(* it, newest row first; log records each handled call with its response  *)
(* status.                                                                 *)
(***************************************************************************)
\* Most calls of the route in one history
MaxCalls == 3

\* JSON values a body may carry in is_recurring, and no value at all
JsonTrue == [type |-> "boolean", value |-> TRUE]
JsonFalse == [type |-> "boolean", value |-> FALSE]
JsonUndefined == [type |-> "undefined", value |-> FALSE]
typeof(v) == v.type

\* merchant_key of a body: a key, or the empty string (falsy, as a missing
\* one is)
BodyKeys == OverrideKeys \cup {""}
BodyFlags == {JsonTrue, JsonFalse, JsonUndefined}

\* An upsert that leaves a row already there as it is
upsert_IgnoreDuplicates(store, merchant_key, is_recurring) ==
    IF \E i \in DOMAIN store : store[i].merchant_key = merchant_key
    THEN store
    ELSE <<[merchant_key |-> merchant_key, is_recurring |-> is_recurring]>> \o store

\* part_003:23-26: .upsert({ merchant_key, is_recurring }, { onConflict:
\* "merchant_key" }): the row of that key takes the new is_recurring and
\* keeps its created_at; without one, a row is inserted, the newest
upsert(store, merchant_key, is_recurring) ==
    IF \E i \in DOMAIN store : store[i].merchant_key = merchant_key
    THEN [i \in DOMAIN store |->
            IF store[i].merchant_key = merchant_key
            THEN [store[i] EXCEPT !.is_recurring = is_recurring]
            ELSE store[i]]
    ELSE <<[merchant_key |-> merchant_key, is_recurring |-> is_recurring]>> \o store

\* A delete that removes force-includes only
deleteEq_OnlyIncludes(store, merchant_key) ==
    SelectSeq(store, LAMBDA r : r.merchant_key # merchant_key \/ ~r.is_recurring)

\* part_003:52-55: .delete().eq("merchant_key", merchant_key)
deleteEq(store, merchant_key) ==
    SelectSeq(store, LAMBDA r : r.merchant_key # merchant_key)

Logged(method, merchant_key, is_recurring, status) ==
    [method |-> method, merchant_key |-> merchant_key,
     is_recurring |-> is_recurring, status |-> status]

\* part_003:8-37
POST ==
    /\ Len(log) < MaxCalls
    /\ \E merchant_key \in BodyKeys, is_recurring \in BodyFlags :
          IF merchant_key = "" \/ typeof(is_recurring) # "boolean"
          THEN /\ log' = Append(log, Logged("POST", merchant_key, is_recurring, 400))
               /\ UNCHANGED overrideStore
          ELSE \E error \in BOOLEAN :
                  IF error
                  THEN /\ log' = Append(log, Logged("POST", merchant_key, is_recurring, 500))
                       /\ UNCHANGED overrideStore
                  ELSE /\ overrideStore' = upsert(overrideStore, merchant_key,
                                                  is_recurring.value)
                       /\ log' = Append(log, Logged("POST", merchant_key, is_recurring, 200))
    /\ UNCHANGED <<transactions, fetchFails, overrides, detected, recurring, pc,
                   gaps, frequencyResult, zone, served>>
    /\ UNCHANGED otherVars

\* part_003:42-66
DELETE ==
    /\ Len(log) < MaxCalls
    /\ \E merchant_key \in BodyKeys :
          IF merchant_key = ""
          THEN /\ log' = Append(log, Logged("DELETE", merchant_key, JsonUndefined, 400))
               /\ UNCHANGED overrideStore
          ELSE \E error \in BOOLEAN :
                  IF error
                  THEN /\ log' = Append(log, Logged("DELETE", merchant_key, JsonUndefined, 500))
                       /\ UNCHANGED overrideStore
                  ELSE /\ overrideStore' = deleteEq(overrideStore, merchant_key)
                       /\ log' = Append(log, Logged("DELETE", merchant_key, JsonUndefined, 200))
    /\ UNCHANGED <<transactions, fetchFails, overrides, detected, recurring, pc,
                   gaps, frequencyResult, zone, served>>
    /\ UNCHANGED otherVars

\* The table as the migration creates it
InitOverrides ==
    /\ overrideStore = <<>>
    /\ log = <<>>
    /\ transactions = <<>>
    /\ fetchFails = FALSE
    /\ overrides = <<>>
    /\ detected = <<>>
    /\ recurring = <<>>
    /\ pc = "start"
    /\ gaps = <<>>
    /\ frequencyResult = Null
    /\ zone = 0
    /\ served = 0
    /\ OthersIdle

NextOverrides == POST \/ DELETE

SpecOverrides == InitOverrides /\ [][NextOverrides]_vars

(***************************************************************************)
(* The user writes and deletes overrides, then asks for the page: calls of *)
(* the route followed by one request.                                      *)
(***************************************************************************)
\* Most calls of the route before the request
MaxCallsBefore == 2

\* The rows of two histories: an electricity bill Pass 2 detects beside a
\* single streaming charge, and a streaming subscription Pass 1 detects
\* beside a single electricity bill
LifecycleRows == { {"d1", "d2", "n1"}, {"n1", "n3", "n4", "d1"} }

InitLifecycle ==
    /\ \E ids \in LifecycleRows : transactions = FetchedRows(ids)
    /\ overrideStore = <<>>
    /\ zone \in TZOffsets
    /\ log = <<>>
    /\ served = 0
    /\ OthersIdle
    /\ fetchFails = FALSE
    /\ overrides = <<>>
    /\ detected = <<>>
    /\ recurring = <<>>
    /\ pc = "start"
    /\ gaps = <<>>
    /\ frequencyResult = Null

NextLifecycle ==
    \/ pc = "start" /\ Len(log) < MaxCallsBefore /\ POST
    \/ pc = "start" /\ Len(log) < MaxCallsBefore /\ DELETE
    \/ RecurringPage

SpecLifecycle == InitLifecycle /\ [][NextLifecycle]_vars

(***************************************************************************)
(* normalizeMerchant on its own: one call on a description put together    *)
(* from a few pieces (letters of both cases, digit runs around the length  *)
(* the expression \d{5,} asks for, a space, a separator of the first      *)
(* replace, punctuation, and the underscore, a word character of \b).      *)
(***************************************************************************)
MaxPieces == 4
Pieces == {"a", "B", "1", "1111", "11111", " ", "_", "-", "#"}

RECURSIVE Descriptions(_)
Descriptions(n) ==
    IF n = 0 THEN {""}
    ELSE {""} \cup { p \o d : p \in Pieces, d \in Descriptions(n - 1) }

InitNormalize ==
    /\ rawDescription \in Descriptions(MaxPieces)
    /\ normalizedKey = ""
    /\ ClientIdle
    /\ SyncIdle
    /\ pc = "start"
    /\ transactions = <<>>
    /\ overrideStore = <<>>
    /\ zone = 0
    /\ log = <<>>
    /\ served = 0
    /\ fetchFails = FALSE
    /\ overrides = <<>>
    /\ detected = <<>>
    /\ recurring = <<>>
    /\ gaps = <<>>
    /\ frequencyResult = Null

NormalizeCall ==
    /\ pc = "start"
    /\ normalizedKey' = normalizeMerchant(rawDescription)
    /\ pc' = "done"
    /\ UNCHANGED <<rawDescription, transactions, overrideStore, fetchFails,
                   overrides, detected, recurring, gaps, frequencyResult, zone,
                   log, served>>
    /\ UNCHANGED <<clientVars, syncVars>>

NextNormalize == NormalizeCall

SpecNormalize == InitNormalize /\ [][NextNormalize]_vars

(***************************************************************************)
(* The page over a household whose charges are of zero cents or one cent.  *)
(***************************************************************************)
InitSmallAmounts ==
    /\ \E ids \in SUBSET SmallAmountRows :
          /\ Cardinality(ids) <= MaxTx
          /\ transactions = FetchedRows(ids)
    /\ overrideStore = <<>>
    /\ zone \in TZOffsets
    /\ log = <<>>
    /\ served = 0
    /\ OthersIdle
    /\ fetchFails = FALSE
    /\ overrides = <<>>
    /\ detected = <<>>
    /\ recurring = <<>>
    /\ pc = "start"
    /\ gaps = <<>>
    /\ frequencyResult = Null

NextSmallAmounts == RecurringPage

SpecSmallAmounts == InitSmallAmounts /\ [][NextSmallAmounts]_vars

(***************************************************************************)
(* RecurringClient (components/RecurringClient.tsx).  The component is     *)
(* mounted with the list the page rendered; the user clicks, each click    *)
(* runs a handler up to its await, and the rest of the handler runs when   *)
(* the overrides route has answered, in any order.  React renders between  *)
(* two events, so a handler reads the state as the steps before left it.   *)
(***************************************************************************)
\* Most clicks on a remove or an add button in one history
MaxClicks == 3

\* The rows the page was rendered from: two detected merchants (a weekly
\* subscription, a monthly bill) and a merchant with one charge
ClientRows == { {"n1", "n2", "n3", "d1", "d2", "d3", "h1"} }

MerchantKeysOf(list) == { list[i].merchantKey : i \in DOMAIN list }

\* RecurringClient.tsx:90-104: the transactions the modal offers, the most
\* recent one of every merchant that is not in the list
addableMerchants(list, allTransactions) ==
    UNION { { allTransactions[p[1]] : p \in
                { q \in keyed :
                    /\ q[2] # ""
                    /\ q[2] \notin MerchantKeysOf(list)
                    /\ \A r \in keyed : r[2] = q[2] => r[1] >= q[1] } }
            : keyed \in { { <<i, toMerchantKey(allTransactions[i].description)>> :
                              i \in { j \in DOMAIN allTransactions :
                                         allTransactions[j].type # "income" } } } }

\* A call of a handler: its argument, what it captured, and whether its
\* request is in flight, was answered with ok or was answered with an error
HandlerCall(handler, key, snapshot) ==
    [handler |-> handler, key |-> key, snapshot |-> snapshot, status |-> "inFlight"]

\* A rollback that puts back the entry this call removed and nothing else
Rollback_OwnEntry(list, call) ==
    SortByMonthlyAmount(
        list \o SelectSeq(call.snapshot,
                          LAMBDA r : r.merchantKey = call.key
                                     /\ r.merchantKey \notin MerchantKeysOf(list)))

\* RecurringClient.tsx:133: setList(snapshot)
Rollback(list, call) == call.snapshot

\* An add that leaves the list alone when the merchant is in it
AddEntry_IfAbsent(list, newEntry) ==
    IF newEntry.merchantKey \in MerchantKeysOf(list) THEN list
    ELSE SortByMonthlyAmount(Append(list, newEntry))

\* RecurringClient.tsx:159-161
AddEntry(list, newEntry) == SortByMonthlyAmount(Append(list, newEntry))

\* A first request for the page, no override stored
InitClient ==
    /\ \E ids \in ClientRows : transactions = FetchedRows(ids)
    /\ zone \in TZOffsets
    /\ overrideStore = <<>>
    /\ overrides = <<>>
    /\ fetchFails = FALSE
    /\ detected = <<>>
    /\ recurring = <<>>
    /\ pc = "start"
    /\ served = 0
    /\ log = <<>>
    /\ gaps = <<>>
    /\ frequencyResult = Null
    /\ NormalizeIdle
    /\ ClientIdle
    /\ SyncIdle

\* RecurringClient.tsx:50-56: the component is mounted with the props of the
\* rendered page, useState(recurring)
Mount ==
    /\ pc = "done"
    /\ ~mounted
    /\ mounted' = TRUE
    /\ clientList' = recurring
    /\ pendingKey' = {}
    /\ showAddModal' = FALSE
    /\ UNCHANGED handlerCalls
    /\ UNCHANGED <<detectorVars, normalizeVars, syncVars>>

\* RecurringClient.tsx:188
OpenAddModal ==
    /\ mounted
    /\ ~showAddModal
    /\ showAddModal' = TRUE
    /\ UNCHANGED <<mounted, clientList, pendingKey, handlerCalls>>
    /\ UNCHANGED <<detectorVars, normalizeVars, syncVars>>

\* RecurringClient.tsx:352-357, 366: a click on the backdrop or on the cross
CloseAddModal ==
    /\ mounted
    /\ showAddModal
    /\ showAddModal' = FALSE
    /\ UNCHANGED <<mounted, clientList, pendingKey, handlerCalls>>
    /\ UNCHANGED <<detectorVars, normalizeVars, syncVars>>

\* RecurringClient.tsx:116-121, up to the await: a click on the remove
\* button of a card.  The modal covers the cards while it is open, and the
\* card of pendingKey takes no clicks (line 278, 285).
handleRemove ==
    /\ mounted
    /\ Len(handlerCalls) < MaxClicks
    /\ ~showAddModal
    /\ \E merchantKey \in MerchantKeysOf(clientList) :
          /\ pendingKey # {merchantKey}
          /\ \E snapshot \in { clientList } :
                /\ handlerCalls' = Append(handlerCalls,
                                          HandlerCall("handleRemove", merchantKey, snapshot))
                /\ clientList' = SelectSeq(snapshot, LAMBDA r : r.merchantKey # merchantKey)
                /\ pendingKey' = {merchantKey}
    /\ UNCHANGED <<mounted, showAddModal>>
    /\ UNCHANGED <<detectorVars, normalizeVars, syncVars>>

\* RecurringClient.tsx:122-136 with the route's POST (part_003:8-37): the
\* request of a handleRemove call is answered and the handler runs on
handleRemoveResumes ==
    \E c \in DOMAIN handlerCalls :
       /\ handlerCalls[c].handler = "handleRemove"
       /\ handlerCalls[c].status = "inFlight"
       /\ \E error \in BOOLEAN :
             IF error
             THEN /\ log' = Append(log, Logged("POST", handlerCalls[c].key, JsonFalse, 500))
                  /\ handlerCalls' = [handlerCalls EXCEPT ![c].status = "failed"]
                  /\ clientList' = Rollback(clientList, handlerCalls[c])
                  /\ UNCHANGED <<overrideStore, pc>>
             ELSE /\ overrideStore' = upsert(overrideStore, handlerCalls[c].key, FALSE)
                  /\ log' = Append(log, Logged("POST", handlerCalls[c].key, JsonFalse, 200))
                  /\ handlerCalls' = [handlerCalls EXCEPT ![c].status = "ok"]
                  /\ pc' = "start"
                  /\ UNCHANGED clientList
       /\ pendingKey' = {}
       /\ UNCHANGED <<mounted, showAddModal>>
       /\ UNCHANGED <<transactions, fetchFails, overrides, detected, recurring,
                      gaps, frequencyResult, zone, served>>
       /\ UNCHANGED <<normalizeVars, syncVars>>

\* RecurringClient.tsx:139-142, up to the await: a click on a merchant of
\* the modal; the button of pendingKey is disabled (line 396, 401)
handleAdd ==
    /\ mounted
    /\ Len(handlerCalls) < MaxClicks
    /\ showAddModal
    /\ \E offered \in { addableMerchants(clientList, transactions) } :
          \E tx \in offered :
          \E key \in { toMerchantKey(tx.description) } :
             /\ pendingKey # {key}
             /\ key # ""
             /\ handlerCalls' = Append(handlerCalls, HandlerCall("handleAdd", key, clientList))
             /\ pendingKey' = {key}
    /\ UNCHANGED <<mounted, clientList, showAddModal>>
    /\ UNCHANGED <<detectorVars, normalizeVars, syncVars>>

\* RecurringClient.tsx:143-170 with the route's POST
handleAddResumes ==
    \E c \in DOMAIN handlerCalls :
       /\ handlerCalls[c].handler = "handleAdd"
       /\ handlerCalls[c].status = "inFlight"
       /\ \E error \in BOOLEAN :
             IF error
             THEN /\ log' = Append(log, Logged("POST", handlerCalls[c].key, JsonTrue, 500))
                  /\ handlerCalls' = [handlerCalls EXCEPT ![c].status = "failed"]
                  /\ UNCHANGED <<overrideStore, pc, clientList, showAddModal>>
             ELSE /\ overrideStore' = upsert(overrideStore, handlerCalls[c].key, TRUE)
                  /\ log' = Append(log, Logged("POST", handlerCalls[c].key, JsonTrue, 200))
                  /\ handlerCalls' = [handlerCalls EXCEPT ![c].status = "ok"]
                  /\ \E matching \in { Matching(transactions, handlerCalls[c].key) } :
                     \E newEntry \in { buildManualRecurring(matching,
                                                            handlerCalls[c].key, zone) } :
                     \E added \in { AddEntry(clientList, newEntry) } :
                        clientList' = added
                  /\ showAddModal' = FALSE
                  /\ pc' = "start"
       /\ pendingKey' = {}
       /\ UNCHANGED <<transactions, fetchFails, overrides, detected, recurring,
                      gaps, frequencyResult, zone, served>>
       /\ UNCHANGED <<mounted, normalizeVars, syncVars>>

\* router.refresh() has the page rendered again (RecurringPage); the state
\* of the mounted component stays as it is
NextClient ==
    \/ Mount
    \/ OpenAddModal
    \/ CloseAddModal
    \/ handleRemove
    \/ handleRemoveResumes
    \/ handleAdd
    \/ handleAddResumes
    \/ RecurringPage

SpecClient == InitClient /\ [][NextClient]_vars

(***************************************************************************)
(* The sync route (app/api/plaid/sync/route.ts, POST).  Plaid keeps, for   *)
(* every item, the list of updates to its transactions; a cursor is a      *)
(* position in that list (0 for the null of a newly linked item), and      *)
(* transactionsSync returns the updates after the cursor, a page at a      *)
(* time.  One call of the route is SyncStart, SyncItem once for every      *)
(* selected item, and SyncRespond.  A row of transactions is reduced to    *)
(* its id and description, one of accounts to its ids and bank_name.       *)
(***************************************************************************)
\* Most calls of the sync route in one history
MaxSyncs == 2

\* Updates on one page of transactionsSync
PageSize == 2

Update(kind, transaction_id, name) ==
    [kind |-> kind, transaction_id |-> transaction_id, name |-> name]

\* What Plaid holds: a bank linked a moment ago with three transactions, and
\* a bank synced before, with a corrected name, a new transaction and a
\* removed one since
PlaidUpdates(item_id) ==
    IF item_id = "itemA"
    THEN << Update("added", "a1", "RENT"), Update("added", "a2", "GYM"),
            Update("added", "a3", "CAFE") >>
    ELSE IF item_id = "itemB"
    THEN << Update("added", "b0", "POS 4471"), Update("added", "b9", "HOLD"),
            Update("modified", "b0", "GROCER"), Update("added", "b1", "FUEL"),
            Update("removed", "b9", "") >>
    ELSE << >>

PlaidAccounts(item_id) ==
    IF item_id = "itemA" THEN {"acc1", "acc2"}
    ELSE IF item_id = "itemB" THEN {"acc3"}
    ELSE {}

\* route.ts:48-68, the fields kept
mapTransaction(t) == [id |-> t.transaction_id, description |-> t.name]

\* One response of plaidClient.transactionsSync for a cursor
transactionsSync(item_id, cursor) ==
    LET updates == PlaidUpdates(item_id)
        last    == IF cursor + PageSize < Len(updates)
                   THEN cursor + PageSize ELSE Len(updates)
        page    == SubSeq(updates, cursor + 1, last)
    IN [ added       |-> SelectSeq(page, LAMBDA u : u.kind = "added"),
         modified    |-> SelectSeq(page, LAMBDA u : u.kind = "modified"),
         removed     |-> SelectSeq(page, LAMBDA u : u.kind = "removed"),
         next_cursor |-> last,
         has_more    |-> last < Len(updates) ]

\* route.ts:111-127: the responses of the while loop that starts at cursor,
\* in order, up to the first one without has_more
RECURSIVE SyncPages(_, _)
SyncPages(item_id, cursor) ==
    LET d == transactionsSync(item_id, cursor)
    IN IF d.has_more THEN <<d>> \o SyncPages(item_id, d.next_cursor) ELSE <<d>>

\* added.push(...d.added) and the like over all pages
RECURSIVE Collected(_, _)
Collected(pages, field) ==
    IF pages = <<>> THEN <<>>
    ELSE pages[1][field] \o Collected(Tail(pages), field)

\* .upsert(toUpsert, { onConflict: "id" })
upsertById(table, rows) ==
    { r \in table : \A k \in DOMAIN rows : rows[k].id # r.id }
    \cup { rows[k] : k \in DOMAIN rows }

\* .delete().in("id", ids)
deleteIn(table, ids) == { r \in table : r.id \notin ids }

\* .update({ cursor }).eq("item_id", item_id)
updateCursor(rows, item_id, cursor) ==
    [k \in DOMAIN rows |->
        IF rows[k].item_id = item_id THEN [rows[k] EXCEPT !.cursor = cursor]
        ELSE rows[k]]

\* route.ts:178-185, the fields kept
accountRow(account_id, institution_name) ==
    [id |-> account_id, plaid_account_id |-> account_id, bank_name |-> institution_name]

\* .upsert(accountRows, { onConflict: "plaid_account_id" })
upsertAccounts(table, rows) ==
    { r \in table : \A n \in rows : n.plaid_account_id # r.plaid_account_id } \cup rows

\* route.ts:196-204: the accounts of the bank that Plaid no longer returns
staleIds(table, institution_name, rows) ==
    { r.id : r \in { e \in table :
                        /\ e.bank_name = institution_name
                        /\ \A n \in rows : n.plaid_account_id # e.plaid_account_id } }

\* An entry of itemErrors: `${item_id}: ${msg}` or `${item_id} upsert: ...`
ItemError(item_id, what) == [item_id |-> item_id, what |-> what]

\* A route that answers 200 whatever happened
ResponseStatus_AlwaysOk(errors) == 200

\* route.ts:222-229
ResponseStatus(errors) == IF Len(errors) > 0 THEN 207 ELSE 200

SyncResponseOf(status, synced, errors) ==
    [status |-> status, synced |-> synced, errors |-> errors]

\* Two banks are connected, one of them synced up to its second update, and
\* a third row of plaid_items has no access token
InitSync ==
    /\ plaid_items =
          << [item_id |-> "itemA", access_token |-> "access-a", cursor |-> 0,
              institution_name |-> "Bank A"],
             [item_id |-> "itemC", access_token |-> "", cursor |-> 0,
              institution_name |-> "Bank C"],
             [item_id |-> "itemB", access_token |-> "access-b", cursor |-> 2,
              institution_name |-> "Bank B"] >>
    /\ txTable = { [id |-> "b0", description |-> "POS 4471"],
                   [id |-> "b9", description |-> "HOLD"] }
    /\ accounts = { accountRow("acc0", "Bank A"), accountRow("acc3", "Bank B") }
    /\ syncPc = "idle"
    /\ items = <<>>
    /\ itemIndex = 1
    /\ totalSynced = 0
    /\ itemErrors = <<>>
    /\ syncResponse = Null
    /\ syncCalls = 0
    /\ transactions = <<>>
    /\ overrideStore = <<>>
    /\ fetchFails = FALSE
    /\ overrides = <<>>
    /\ detected = <<>>
    /\ recurring = <<>>
    /\ pc = "start"
    /\ gaps = <<>>
    /\ frequencyResult = Null
    /\ zone = 0
    /\ log = <<>>
    /\ served = 0
    /\ NormalizeIdle
    /\ ClientIdle

\* route.ts:80-97 and 230-235: the route selects the rows of plaid_items; an
\* error there is thrown and answered with 500
SyncStart ==
    /\ syncPc = "idle"
    /\ syncCalls < MaxSyncs
    /\ \E itemsErr \in BOOLEAN :
          IF itemsErr
          THEN /\ syncResponse' = SyncResponseOf(500, 0, <<>>)
               /\ syncCalls' = syncCalls + 1
               /\ UNCHANGED <<syncPc, items, itemIndex, totalSynced, itemErrors>>
          ELSE IF Len(plaid_items) = 0
          THEN /\ syncResponse' = SyncResponseOf(200, 0, <<>>)
               /\ syncCalls' = syncCalls + 1
               /\ UNCHANGED <<syncPc, items, itemIndex, totalSynced, itemErrors>>
          ELSE /\ items' = plaid_items
               /\ itemIndex' = 1
               /\ totalSynced' = 0
               /\ itemErrors' = <<>>
               /\ syncPc' = "loop"
               /\ UNCHANGED <<syncResponse, syncCalls>>
    /\ UNCHANGED <<plaid_items, txTable, accounts>>
    /\ UNCHANGED <<detectorVars, normalizeVars, clientVars>>

\* route.ts:99-220, the body of the for loop for one item.  failAt is the
\* call of transactionsSync that throws, 0 when none does; the other
\* choices are the errors the database and accountsGet may return.
SyncItem ==
    /\ syncPc = "loop"
    /\ itemIndex <= Len(items)
    /\ itemIndex' = itemIndex + 1
    /\ \E item \in { items[itemIndex] } :
          IF item.access_token = ""
          THEN UNCHANGED <<plaid_items, txTable, accounts, totalSynced, itemErrors>>
          ELSE
          \E pages \in { SyncPages(item.item_id, item.cursor) } :
          \E failAt \in 0..Len(pages) :
             IF failAt # 0
             THEN /\ itemErrors' = Append(itemErrors,
                                          ItemError(item.item_id, "transactionsSync"))
                  /\ UNCHANGED <<plaid_items, txTable, accounts, totalSynced>>
             ELSE
             \E cursor \in { pages[Len(pages)].next_cursor } :
             \E toUpsert \in { [k \in 1..Len(Collected(pages, "added")
                                             \o Collected(pages, "modified")) |->
                                  mapTransaction((Collected(pages, "added")
                                      \o Collected(pages, "modified"))[k])] } :
             \E ids \in { { u.transaction_id : u \in Range(Collected(pages, "removed")) } } :
             \E accountRows \in { { accountRow(a, item.institution_name) :
                                        a \in PlaidAccounts(item.item_id) } } :
             \E cursorErr \in BOOLEAN :
             \E upsertErr \in (IF Len(toUpsert) > 0 THEN BOOLEAN ELSE {FALSE}) :
             \E deleteErr \in (IF ids # {} THEN BOOLEAN ELSE {FALSE}) :
             \E acct \in {"accountsGet throws", "acctErr", "staleErr", "ok"} :
                /\ plaid_items' = IF cursorErr THEN plaid_items
                                  ELSE updateCursor(plaid_items, item.item_id, cursor)
                /\ \E upserted \in { IF upsertErr THEN txTable
                                       ELSE upsertById(txTable, toUpsert) } :
                      txTable' = IF deleteErr THEN upserted ELSE deleteIn(upserted, ids)
                /\ itemErrors' = IF upsertErr
                                 THEN Append(itemErrors, ItemError(item.item_id, "upsert"))
                                 ELSE itemErrors
                /\ totalSynced' = IF upsertErr THEN totalSynced
                                  ELSE totalSynced + Len(toUpsert)
                /\ accounts' =
                      IF acct \in {"accountsGet throws", "acctErr"} \/ accountRows = {}
                      THEN accounts
                      ELSE IF acct = "staleErr"
                      THEN upsertAccounts(accounts, accountRows)
                      ELSE deleteIn(upsertAccounts(accounts, accountRows),
                                    staleIds(upsertAccounts(accounts, accountRows),
                                             item.institution_name, accountRows))
    /\ UNCHANGED <<syncPc, items, syncResponse, syncCalls>>
    /\ UNCHANGED <<detectorVars, normalizeVars, clientVars>>

\* route.ts:222-229: after the last item
SyncRespond ==
    /\ syncPc = "loop"
    /\ itemIndex > Len(items)
    /\ syncResponse' = SyncResponseOf(ResponseStatus(itemErrors), totalSynced, itemErrors)
    /\ syncCalls' = syncCalls + 1
    /\ syncPc' = "idle"
    /\ UNCHANGED <<plaid_items, txTable, accounts, items, itemIndex, totalSynced,
                   itemErrors>>
    /\ UNCHANGED <<detectorVars, normalizeVars, clientVars>>

NextSync == SyncStart \/ SyncItem \/ SyncRespond

SpecSync == InitSync /\ [][NextSync]_vars

(***************************************************************************)
(* Properties.                                                             *)
(***************************************************************************)
\* The transactions the detector analyses, and their ids by merchant key
NonIncome == { transactions[i] : i \in { j \in DOMAIN transactions :
                                             transactions[j].type # "income" } }
KeyOfTx(t) == NormalizedOf[t.description]
IdsWithKey(K) == { t.id : t \in { u \in NonIncome : KeyOfTx(u) = K } }
TxOfId(id) == CHOOSE t \in Range(transactions) : t.id = id
FetchedIds == { transactions[i].id : i \in DOMAIN transactions }

\* Keys the fetched overrides force out of, and into, the list
ForcedOut == { overrides[i].merchant_key : i \in { j \in DOMAIN overrides :
                                                      ~overrides[j].is_recurring } }
ForcedIn == { overrides[i].merchant_key : i \in { j \in DOMAIN overrides :
                                                     overrides[j].is_recurring } }

EntriesWithKey(list, K) == { i \in DOMAIN list : list[i].merchantKey = K }

\* C1: if the overrides the page works with hold a row with
\* is_recurring = false for merchant key K, the final list has no entry whose
\* merchantKey is K, whatever the detector emitted for K.
C1_ExcludedAbsent ==
    pc = "done" => \A K \in ForcedOut : EntriesWithKey(recurring, K) = {}

\* The detector emitted a Pass 1 entry for a key that is forced out, and the
\* final list does not have it
C1_Witness ==
    /\ pc = "done"
    /\ \E K \in ForcedOut :
          /\ \E i \in EntriesWithKey(detected, K) : detected[i].pass = "pass1"
          /\ EntriesWithKey(recurring, K) = {}

\* Keys of the detected entries that survive the exclusions
PostExclusionKeys ==
    { detected[i].merchantKey : i \in { j \in DOMAIN detected :
                                           detected[j].merchantKey \notin ForcedOut } }

\* C2: for each override with is_recurring = true whose key K is not among
\* the keys of the post-exclusion detected list, the final list has exactly one
\* entry with merchantKey K when some non-income transaction normalizes to K,
\* synthesized from all of those transactions (be there only 1 or 2), and no
\* entry with merchantKey K when there is none.
C2_ForcedInSynthesized ==
    pc = "done" =>
        \A K \in ForcedIn \ PostExclusionKeys :
            IF IdsWithKey(K) # {}
            THEN /\ Cardinality(EntriesWithKey(recurring, K)) = 1
                 /\ \A i \in EntriesWithKey(recurring, K) :
                        /\ recurring[i].pass = "manual"
                        /\ recurring[i].txIds = IdsWithKey(K)
                        /\ recurring[i].occurrences = Cardinality(IdsWithKey(K))
            ELSE EntriesWithKey(recurring, K) = {}

\* A force-included merchant with two transactions, one of them a transfer,
\* which the detector did not emit, has its synthesized entry in the list
C2_Witness ==
    /\ pc = "done"
    /\ \E K \in ForcedIn \ PostExclusionKeys :
          /\ Cardinality(IdsWithKey(K)) = 2
          /\ \E id \in IdsWithKey(K) : TxOfId(id).type = "transfer"
          /\ \E i \in EntriesWithKey(recurring, K) : recurring[i].txIds = IdsWithKey(K)

NonIncreasing(list) ==
    \A i \in 1..(Len(list) - 1) :
        RatLeq(list[i + 1].monthlyAmount, list[i].monthlyAmount)

\* C3: the list detectRecurringTransactions returns and the list the page
\* passes on after applying the overrides are sorted non-increasing by
\* monthlyAmount: of every adjacent pair the earlier entry's monthlyAmount is
\* at least the later entry's.
C3_SortedByMonthlyAmount ==
    pc = "done" => NonIncreasing(detected) /\ NonIncreasing(recurring)

\* The rows arrive latest first, so the DUKE ENERGY group (d4, e1; 102.50 a
\* month) is pushed before the Netflix group (n8, n3; 122.50 a month), and the
\* returned list has Netflix first
C3_Witness ==
    /\ pc = "done"
    /\ FetchedIds = {"d4", "e1", "n3", "n8"}
    /\ Len(detected) = 2
    /\ detected[1].txIds = {"n3", "n8"}
    /\ RatLess(detected[2].monthlyAmount, detected[1].monthlyAmount)
    /\ Len(recurring) = 2

\* Entries of the detector output that hold transaction id
EntriesHolding(id) == { i \in DOMAIN detected : id \in detected[i].txIds }

\* C4: the detector emits no entry for a merchant whose exact normalized key
\* has fewer than 3 non-income transactions, unless Pass 2 picks those
\* transactions up as utilities: a non-utility merchant with 1 or 2
\* transactions appears in no entry, and every Pass 1 entry has at least 3
\* occurrences, all the transactions of one key.
C4_ThreeOccurrenceFloor ==
    pc = "done" =>
        /\ \A i \in DOMAIN detected :
              detected[i].pass = "pass1" =>
                  /\ detected[i].occurrences >= 3
                  /\ Cardinality(detected[i].txIds) >= 3
                  /\ \E K \in { KeyOfTx(t) : t \in NonIncome } :
                         detected[i].txIds = IdsWithKey(K)
        /\ \A t \in NonIncome :
              Cardinality(IdsWithKey(KeyOfTx(t))) < 3 =>
                  /\ \A i \in EntriesHolding(t.id) : detected[i].pass = "pass2"
                  /\ t.id \notin UtilityIds => EntriesHolding(t.id) = {}

\* A merchant with two non-utility transactions is in no entry, while the
\* detector did emit an entry for another merchant
C4_Witness ==
    /\ pc = "done"
    /\ detected # <<>>
    /\ \E t \in NonIncome :
          /\ Cardinality(IdsWithKey(KeyOfTx(t))) = 2
          /\ IdsWithKey(KeyOfTx(t)) \cap UtilityIds = {}
          /\ \A id \in IdsWithKey(KeyOfTx(t)) : EntriesHolding(id) = {}

\* Every absolute amount of ids is within pct percent of their mean:
\* |a - sum / n| <= pct / 100 * sum / n, multiplied out
AmountsWithin(ids, pct) ==
    LET n == Cardinality(ids)
        amountOf == [id \in ids |-> Abs(TxOfId(id).amount)]
        ordered == CHOOSE f \in [1..n -> ids] : \A id \in ids : \E k \in 1..n : f[k] = id
        total == SumSeq([k \in 1..n |-> amountOf[ordered[k]]])
    IN \A id \in ids :
           /\ 100 * (n * amountOf[id] - total) <= pct * total
           /\ 100 * (total - n * amountOf[id]) <= pct * total

\* C5: Pass 1 emits a group only if every member's absolute amount is within
\* 20% of the group's mean, or within 45% when some member is a utility; the
\* four monthly Netflix charges of 100, 100, 100, 145 (no utility among them)
\* give no entry, the four DUKE ENERGY charges of 100, 100, 100, 145 (each
\* with a utility category) give one.
C5_VarianceThreshold ==
    pc = "done" =>
        /\ \A i \in DOMAIN detected :
              detected[i].pass = "pass1" =>
                  IF detected[i].txIds \cap UtilityIds # {}
                  THEN AmountsWithin(detected[i].txIds, 45)
                  ELSE AmountsWithin(detected[i].txIds, 20)
        /\ FetchedIds = {"n1", "n4", "n6", "n7"} => detected = <<>>
        /\ FetchedIds = {"d1", "d2", "d3", "d4"} =>
               /\ Len(detected) = 1
               /\ detected[1].pass = "pass1"
               /\ detected[1].txIds = {"d1", "d2", "d3", "d4"}

\* The four utility charges were emitted by Pass 1 although 145 is more than
\* 20% above their mean
C5_Witness ==
    /\ pc = "done"
    /\ FetchedIds = {"d1", "d2", "d3", "d4"}
    /\ Len(detected) = 1
    /\ detected[1].pass = "pass1"
    /\ ~AmountsWithin(detected[1].txIds, 20)
    /\ AmountsWithin(detected[1].txIds, 45)

\* The mean of gs lies in [lo, hi] and every gap is within tol of the mean,
\* written on the sum: n * lo <= sum <= n * hi and |n * g - sum| <= n * tol.
InBand(gs, lo, hi, tol) ==
    LET n == Len(gs)
        total == SumSeq(gs)
    IN /\ n > 0
       /\ n * lo <= total /\ total <= n * hi
       /\ \A i \in 1..n : n * gs[i] - total <= n * tol /\ total - n * gs[i] <= n * tol

FrequencyIs(result, f) == result # Null /\ result.frequency = f

\* C6: detectFrequency returns weekly exactly when the mean gap is in [4,10]
\* and every gap is within 3 days of it, biweekly exactly when the mean is in
\* [11,17] and every gap within 5, monthly exactly when the mean is in [25,35]
\* and every gap within 7, and nothing for every other list; [7,7,7] is
\* weekly with intervalDays 7, [14,15,13] biweekly, [30,31,29] monthly and
\* [20,20,20] unclassified.
C6_FrequencyBands ==
    pc = "done" =>
        /\ FrequencyIs(frequencyResult, "weekly") <=> InBand(gaps, 4, 10, 3)
        /\ FrequencyIs(frequencyResult, "biweekly") <=> InBand(gaps, 11, 17, 5)
        /\ FrequencyIs(frequencyResult, "monthly") <=> InBand(gaps, 25, 35, 7)
        /\ frequencyResult = Null <=>
               ~(\/ InBand(gaps, 4, 10, 3) \/ InBand(gaps, 11, 17, 5)
                 \/ InBand(gaps, 25, 35, 7))
        /\ gaps = <<7, 7, 7>> =>
               frequencyResult = [frequency |-> "weekly", intervalDays |-> 7]
        /\ gaps = <<14, 15, 13>> => FrequencyIs(frequencyResult, "biweekly")
        /\ gaps = <<30, 31, 29>> => FrequencyIs(frequencyResult, "monthly")
        /\ gaps = <<20, 20, 20>> => frequencyResult = Null

\* A list with unequal gaps was classified biweekly
C6_Witness ==
    /\ pc = "done"
    /\ gaps = <<14, 15, 13>>
    /\ FrequencyIs(frequencyResult, "biweekly")

NonIncomeIds == { t.id : t \in NonIncome }
MonthsOf(ids) == { SubSeq(TxOfId(id).date, 1, 7) : id \in ids }

\* The non-income transactions are two, of one merchant (a key of at least 3
\* characters, the floor below which nothing is grouped), dated in two
\* calendar months, each amount within 45% of their mean
PairInShape ==
    /\ Cardinality(NonIncomeIds) = 2
    /\ \E t \in NonIncome :
          NonIncomeIds = IdsWithKey(KeyOfTx(t)) /\ Len(KeyOfTx(t)) >= 3
    /\ Cardinality(MonthsOf(NonIncomeIds)) = 2
    /\ AmountsWithin(NonIncomeIds, 45)

SumOfOccurrences(list) == SumSeq([i \in 1..Len(list) |-> list[i].occurrences])

\* C8: the transactions of an emitted Pass 1 group are kept out of Pass 2 and
\* Pass 2 sees utility transactions only: no transaction is in two entries of
\* the detector output, every transaction of a Pass 2 entry is a utility, and
\* the occurrences of the output add up to at most the number of non-income
\* transactions.
C8_NoDoubleCounting ==
    pc = "done" =>
        /\ \A i, j \in DOMAIN detected :
              i # j => detected[i].txIds \cap detected[j].txIds = {}
        /\ \A i \in DOMAIN detected :
              /\ detected[i].txIds \subseteq NonIncomeIds
              /\ detected[i].occurrences = Cardinality(detected[i].txIds)
              /\ detected[i].pass = "pass2" => detected[i].txIds \subseteq UtilityIds
        /\ SumOfOccurrences(detected) <= Cardinality(NonIncomeIds)

\* Pass 1 emitted a group of utility transactions and Pass 2 a group of the
\* same 8-character prefix: without the captured ids the Pass 2 group would
\* have held the transactions of both
C8_Witness ==
    /\ pc = "done"
    /\ \E i, j \in DOMAIN detected :
          /\ detected[i].pass = "pass1"
          /\ detected[i].txIds \subseteq UtilityIds
          /\ detected[j].pass = "pass2"
          /\ \A a \in detected[i].txIds, b \in detected[j].txIds :
                 PrefixKeyOf[TxOfId(a).description] = PrefixKeyOf[TxOfId(b).description]

\* The latest date among the transactions of ids
LatestDate(ids) ==
    CHOOSE d \in { TxOfId(id).date : id \in ids } :
        \A id \in ids : ~DateBefore(d, TxOfId(id).date)

\* C9: every entry of the output has nextPredictedDate equal to the calendar
\* date exactly intervalDays days after lastDate, where lastDate is the latest
\* date among its contributing transactions.
C9_NextDateIsLastPlusInterval ==
    pc = "done" =>
        \A i \in DOMAIN detected :
            /\ detected[i].lastDate = LatestDate(detected[i].txIds)
            /\ detected[i].nextPredictedDate =
                   FormatEpochDay(DateToEpochDay(detected[i].lastDate)
                                  + detected[i].intervalDays)

\* What the average amount of ids is, in cents
MeanAmountOf(ids) ==
    LET n == Cardinality(ids)
        ordered == CHOOSE f \in [1..n -> ids] : \A id \in ids : \E k \in 1..n : f[k] = id
    IN Rat(SumSeq([k \in 1..n |-> Abs(TxOfId(ordered[k]).amount)]), n)

\* C10: every entry the detector emits has monthlyAmount = averageAmount x
\* 4.33 when its frequency is weekly, x 2.17 when biweekly and x 1.0 when
\* monthly, averageAmount being the mean of the absolute amounts of its
\* contributing transactions.
C10_MonthlyAmount ==
    pc = "done" =>
        \A i \in DOMAIN detected :
            /\ detected[i].frequency \in {"weekly", "biweekly", "monthly"}
            /\ detected[i].averageAmount = MeanAmountOf(detected[i].txIds)
            /\ detected[i].frequency = "weekly" =>
                   detected[i].monthlyAmount
                       = RatMul(MeanAmountOf(detected[i].txIds), Rat(433, 100))
            /\ detected[i].frequency = "biweekly" =>
                   detected[i].monthlyAmount
                       = RatMul(MeanAmountOf(detected[i].txIds), Rat(217, 100))
            /\ detected[i].frequency = "monthly" =>
                   detected[i].monthlyAmount = MeanAmountOf(detected[i].txIds)

\* A biweekly entry of three charges of 100.00: 217.00 a month
C10_Witness ==
    /\ pc = "done"
    /\ \E i \in DOMAIN detected :
          /\ detected[i].frequency = "biweekly"
          /\ detected[i].averageAmount = Rat(10000, 1)
          /\ detected[i].monthlyAmount = Rat(21700, 1)

\* The fetched rows without the income rows, and with every remaining row
\* typed as an expense
WithoutIncome == SelectSeq(transactions, LAMBDA t : t.type # "income")
AsExpenses(txs) == [i \in DOMAIN txs |-> [txs[i] EXCEPT !.type = "expense"]]

\* C11: the detector's output does not depend on income transactions: it is
\* the output for the fetched rows with every income row removed; expenses
\* and transfers are analysed alike: the output is what it would be with
\* every transfer typed as an expense.
C11_IncomeIgnored ==
    pc = "done" =>
        /\ WithoutIncome # transactions =>
               detected = Detected(WithoutIncome, zone)
        /\ AsExpenses(WithoutIncome) # WithoutIncome =>
               detected = Detected(AsExpenses(WithoutIncome), zone)

\* An income row of a merchant sits between the charges of a detected entry
\* of that merchant, one of which is a transfer
C11_Witness ==
    /\ pc = "done"
    /\ \E i \in DOMAIN detected :
          /\ \E t \in Range(transactions) :
                /\ t.type = "income"
                /\ KeyOfTx(t) = detected[i].merchantKey
                /\ \E id \in detected[i].txIds : DateBefore(TxOfId(id).date, t.date)
                /\ DateBefore(t.date, detected[i].lastDate)
          /\ \E id \in detected[i].txIds : TxOfId(id).type = "transfer"

\* The ids in the groups of a pass
GroupedIds(groups) ==
    UNION { { groups[g][i].id : i \in DOMAIN groups[g] } : g \in DOMAIN groups }

\* The ids Pass 1 captured, read off the entries it pushed
CapturedByPass1 ==
    UNION { detected[i].txIds : i \in { j \in DOMAIN detected : detected[j].pass = "pass1" } }

\* C12: a transaction whose normalized description has fewer than 3
\* characters is in no Pass 1 group and in no Pass 2 group, and contributes to
\* no entry of the output.
C12_ShortKeyFloor ==
    pc = "done" =>
        \A t \in NonIncome :
            Len(KeyOfTx(t)) < 3 =>
                /\ t.id \notin GroupedIds(ExactGroups(Expenses(transactions)))
                /\ t.id \notin GroupedIds(PrefixGroups(
                                  UtilityTxns(Expenses(transactions), CapturedByPass1)))
                /\ EntriesHolding(t.id) = {}

\* Three utility charges of one merchant with a two-character key, a month
\* apart and within 20% of their mean: both passes would take them were the
\* key longer, and the output has no entry
C12_Witness ==
    /\ pc = "done"
    /\ \E K \in { KeyOfTx(t) : t \in NonIncome } :
          /\ Len(K) = 2
          /\ Cardinality(IdsWithKey(K)) = 3
          /\ Cardinality(MonthsOf(IdsWithKey(K))) = 3
          /\ IdsWithKey(K) \subseteq UtilityIds
          /\ AmountsWithin(IdsWithKey(K), 20)
          /\ NonIncomeIds = IdsWithKey(K)
          /\ detected = <<>>

\* The rows of the table with merchant key K
RowsOf(K) == { i \in DOMAIN overrideStore : overrideStore[i].merchant_key = K }

\* The calls for key K the route answered with ok
Successful(K) ==
    { i \in DOMAIN log : log[i].status = 200 /\ log[i].merchant_key = K }

\* The latest of them
LastSuccessful(K) == CHOOSE i \in Successful(K) : \A j \in Successful(K) : j <= i

\* C13: after any sequence of upserts and deletes the table holds at most one
\* row per merchant_key: none when the key was never upserted with success or
\* its latest successful call is a delete, and otherwise one row whose
\* is_recurring is the value of the latest successful upsert, an earlier
\* opposite decision being replaced.
C13_LastWriteWins ==
    \A K \in BodyKeys :
        /\ Cardinality(RowsOf(K)) <= 1
        /\ IF Successful(K) = {} \/ log[LastSuccessful(K)].method = "DELETE"
           THEN RowsOf(K) = {}
           ELSE /\ Cardinality(RowsOf(K)) = 1
                /\ \A i \in RowsOf(K) :
                       overrideStore[i].is_recurring
                           = log[LastSuccessful(K)].is_recurring.value

\* A key was upserted with one value and then with the opposite one; the
\* table holds one row of it, with the later value, beside a row of another
\* key
C13_Witness ==
    /\ Len(overrideStore) = 2
    /\ \E i, j \in DOMAIN log :
          /\ i < j
          /\ log[i].method = "POST" /\ log[i].status = 200
          /\ log[j].method = "POST" /\ log[j].status = 200
          /\ log[i].merchant_key = log[j].merchant_key
          /\ log[i].is_recurring.value # log[j].is_recurring.value
          /\ \A k \in RowsOf(log[j].merchant_key) :
                 overrideStore[k].is_recurring = log[j].is_recurring.value

\* C14: when the fetch of the overrides fails, the request does not fail and
\* the page works with no override: the final list is the detector's output,
\* the list an empty table gives.
C14_FetchFailureDegrades ==
    (fetchFails /\ pc # "start") =>
        /\ pc = "done"
        /\ overrides = <<>>
        /\ recurring = detected
        /\ recurring = SortByMonthlyAmount(
                           ApplyIncludes(ApplyExcludes(detected, <<>>), <<>>,
                                         transactions, zone))

\* The fetch failed while the table excludes a merchant the detector emits
\* and includes one it does not: the list is the detector's output
C14_Witness ==
    /\ pc = "done"
    /\ fetchFails
    /\ \E i, j \in DOMAIN overrideStore :
          /\ ~overrideStore[i].is_recurring
          /\ EntriesWithKey(detected, overrideStore[i].merchant_key) # {}
          /\ overrideStore[j].is_recurring
          /\ EntriesWithKey(detected, overrideStore[j].merchant_key) = {}
          /\ IdsWithKey(overrideStore[j].merchant_key) # {}
    /\ recurring = detected

ThreeMonthlyCharges ==
    /\ Cardinality(NonIncome) = 3
    /\ \A t \in NonIncome : t.type = "expense" /\ t.amount = 1599
    /\ \A t, u \in NonIncome : t.description = u.description
    /\ { t.date : t \in NonIncome } = {"2026-01-01", "2026-02-01", "2026-03-01"}

\* C16: for three expenses of one description, 15.99 each, dated 2026-01-01,
\* 2026-02-01 and 2026-03-01, the detector emits exactly one entry: monthly,
\* monthlyAmount 15.99, occurrences 3, lastDate 2026-03-01 and
\* nextPredictedDate 2026-03-31 or 2026-04-01.
C16_ThreeMonthlyCharges ==
    (pc = "done" /\ ThreeMonthlyCharges) =>
        /\ Len(detected) = 1
        /\ detected[1].frequency = "monthly"
        /\ detected[1].monthlyAmount = Rat(1599, 1)
        /\ detected[1].occurrences = 3
        /\ detected[1].lastDate = "2026-03-01"
        /\ detected[1].nextPredictedDate \in {"2026-03-31", "2026-04-01"}

\* The three bands: name, range of the mean, tolerance of each gap
Bands ==
    { [name |-> "weekly", lo |-> 4, hi |-> 10, tol |-> 3],
      [name |-> "biweekly", lo |-> 11, hi |-> 17, tol |-> 5],
      [name |-> "monthly", lo |-> 25, hi |-> 35, tol |-> 7] }

\* lo <= mean <= hi, on the sum
MeanWithin(gs, lo, hi) ==
    Len(gs) > 0 /\ Len(gs) * lo <= SumSeq(gs) /\ SumSeq(gs) <= Len(gs) * hi

\* Every gap is within tol of the mean, on the sum
GapsWithin(gs, tol) ==
    \A i \in DOMAIN gs :
        /\ Len(gs) * gs[i] - SumSeq(gs) <= Len(gs) * tol
        /\ SumSeq(gs) - Len(gs) * gs[i] <= Len(gs) * tol

\* C17: a gap list whose mean is in the range of a band and which has a gap
\* outside that band's tolerance gets no classification; a list is classified
\* by no band other than the one whose range holds its mean; a list whose mean
\* is in no range (below 4, between 10 and 11, between 17 and 25, above 35)
\* gets none.
C17_NoFallThrough ==
    pc = "done" =>
        /\ \A b \in Bands :
               /\ (MeanWithin(gaps, b.lo, b.hi) /\ ~GapsWithin(gaps, b.tol))
                      => frequencyResult = Null
               /\ FrequencyIs(frequencyResult, b.name) => MeanWithin(gaps, b.lo, b.hi)
        /\ (\A b \in Bands : ~MeanWithin(gaps, b.lo, b.hi)) => frequencyResult = Null

\* A list with its mean in the weekly range and a gap more than 3 days off
\* it, every gap within the 5 days the biweekly band allows: unclassified
C17_Witness ==
    /\ pc = "done"
    /\ MeanWithin(gaps, 4, 10)
    /\ ~GapsWithin(gaps, 3)
    /\ GapsWithin(gaps, 5)
    /\ frequencyResult = Null

\* C18: every entry Pass 2 emits has frequency monthly, intervalDays 30,
\* nextPredictedDate the date 30 days after lastDate and monthlyAmount equal
\* to averageAmount, whatever the gaps between its transactions.
C18_Pass2Fixed ==
    pc = "done" =>
        \A i \in DOMAIN detected :
            detected[i].pass = "pass2" =>
                /\ detected[i].frequency = "monthly"
                /\ detected[i].intervalDays = 30
                /\ detected[i].nextPredictedDate =
                       FormatEpochDay(DateToEpochDay(detected[i].lastDate) + 30)
                /\ detected[i].monthlyAmount = detected[i].averageAmount

\* The same without the predicted date
C18_Pass2FixedButDate ==
    pc = "done" =>
        \A i \in DOMAIN detected :
            detected[i].pass = "pass2" =>
                /\ detected[i].frequency = "monthly"
                /\ detected[i].intervalDays = 30
                /\ detected[i].monthlyAmount = detected[i].averageAmount

\* The transactions the detector analyses are utilities of one prefix key,
\* of a merchant key of at least 3 characters, within 45% of their mean
OnePrefixGroup ==
    /\ NonIncomeIds # {}
    /\ NonIncomeIds \subseteq UtilityIds
    /\ \A t, u \in NonIncome : PrefixKeyOf[t.description] = PrefixKeyOf[u.description]
    /\ \A t \in NonIncome : Len(KeyOfTx(t)) >= 3
    /\ AmountsWithin(NonIncomeIds, 45)

\* C19: Pass 2 emits a prefix group only if it has at least 2 transactions
\* dated in at least 2 distinct calendar months: a group within one month is
\* not emitted however many transactions it has, and two transactions of
\* adjacent months, one day apart, are.
C19_TwoDistinctMonths ==
    pc = "done" =>
        /\ \A i \in DOMAIN detected :
               detected[i].pass = "pass2" =>
                   /\ Cardinality(detected[i].txIds) >= 2
                   /\ Cardinality(MonthsOf(detected[i].txIds)) >= 2
        /\ (OnePrefixGroup /\ Cardinality(MonthsOf(NonIncomeIds)) = 1) =>
               \A i \in DOMAIN detected : detected[i].pass # "pass2"
        /\ (/\ OnePrefixGroup
            /\ Cardinality(NonIncomeIds) = 2
            /\ Cardinality(MonthsOf(NonIncomeIds)) = 2
            /\ \E a, b \in NonIncomeIds :
                   DateToEpochDay(TxOfId(b).date) = DateToEpochDay(TxOfId(a).date) + 1) =>
               /\ Len(detected) = 1
               /\ detected[1].pass = "pass2"
               /\ detected[1].txIds = NonIncomeIds

\* Three utility bills of one merchant within one calendar month, on three
\* dates and within 45% of their mean, which Pass 1 did not take: no entry
C19_Witness ==
    /\ pc = "done"
    /\ OnePrefixGroup
    /\ Cardinality(NonIncomeIds) = 3
    /\ Cardinality({ TxOfId(id).date : id \in NonIncomeIds }) = 3
    /\ Cardinality(MonthsOf(NonIncomeIds)) = 1
    /\ detected = <<>>

\* Two utility bills one day apart, in adjacent months, emitted by Pass 2
C19_AdjacentMonths ==
    /\ pc = "done"
    /\ OnePrefixGroup
    /\ Cardinality(NonIncomeIds) = 2
    /\ \E a, b \in NonIncomeIds :
           DateToEpochDay(TxOfId(b).date) = DateToEpochDay(TxOfId(a).date) + 1
    /\ Len(detected) = 1
    /\ detected[1].pass = "pass2"

\* The fetched overrides without the row of key K
OverridesWithout(K) == SelectSeq(overrides, LAMBDA o : o.merchant_key # K)

\* C20: an override with is_recurring = true for a key the detector emits
\* adds nothing: the final list is the list the page computes without that
\* override, and it has one entry of that key, the detector's.
C20_RedundantInclude ==
    pc = "done" =>
        \A K \in ForcedIn \cap PostExclusionKeys :
            /\ recurring = PageList(transactions, OverridesWithout(K), zone)
            /\ Cardinality(EntriesWithKey(recurring, K)) = 1
            /\ \A i \in EntriesWithKey(recurring, K) : recurring[i].pass # "manual"

\* A force-included merchant with three or more transactions that Pass 1
\* detected: the list has the detector's entry and no synthesized one
C20_Witness ==
    /\ pc = "done"
    /\ \E K \in ForcedIn \cap PostExclusionKeys :
          /\ \E i \in EntriesWithKey(recurring, K) : recurring[i].pass = "pass1"
          /\ Cardinality(IdsWithKey(K)) >= 3
          /\ Len(recurring) = Len(detected)

\* The entries of a list with merchant key K
EntriesOf(list, K) == SelectSeq(list, LAMBDA r : r.merchantKey = K)

\* C21: after a successful DELETE for key K, with no call for K answered ok
\* after it, the next recomputation has an entry for K exactly when the
\* detector emits one, and it is the detector's, whichever override was
\* deleted and whatever was written for K before.
C21_DeleteRestoresDetection ==
    pc = "done" =>
        \A K \in OverrideKeys :
            (Successful(K) # {} /\ log[LastSuccessful(K)].method = "DELETE") =>
                /\ EntriesWithKey(recurring, K) # {} <=> EntriesWithKey(detected, K) # {}
                /\ EntriesOf(recurring, K) = EntriesOf(detected, K)

\* A force-exclude of a merchant the detector emits was written and then
\* deleted: the list has the merchant again
C21_Witness ==
    /\ pc = "done"
    /\ ~fetchFails
    /\ Len(log) = 2
    /\ log[1].method = "POST" /\ log[1].status = 200 /\ ~log[1].is_recurring.value
    /\ log[2].method = "DELETE" /\ log[2].status = 200
    /\ log[1].merchant_key = log[2].merchant_key
    /\ EntriesWithKey(detected, log[2].merchant_key) # {}
    /\ EntriesWithKey(recurring, log[2].merchant_key) # {}

\* A force-include of a merchant the detector does not emit was written and
\* then deleted: the list does not have the merchant
C21_IncludeDeleted ==
    /\ pc = "done"
    /\ ~fetchFails
    /\ Len(log) = 2
    /\ log[1].method = "POST" /\ log[1].status = 200 /\ log[1].is_recurring.value
    /\ log[2].method = "DELETE" /\ log[2].status = 200
    /\ log[1].merchant_key = log[2].merchant_key
    /\ IdsWithKey(log[2].merchant_key) # {}
    /\ EntriesWithKey(recurring, log[2].merchant_key) = {}

\* C22: the final list never has two entries with one merchantKey, for every
\* history and every set of overrides with unique keys, also when both passes
\* emit entries and when a transaction of a force-included key is in a Pass 2
\* group.
C22_UniqueMerchantKeys ==
    pc = "done" =>
        \A i, j \in DOMAIN recurring :
            recurring[i].merchantKey = recurring[j].merchantKey => i = j

\* The list holds a Pass 1 entry, a Pass 2 entry and the synthesized entry
\* of a force-included key one of whose transactions is in the Pass 2 group
C22_Witness ==
    /\ pc = "done"
    /\ \E i, j, k \in DOMAIN recurring :
          /\ recurring[i].pass = "pass1"
          /\ recurring[j].pass = "pass2"
          /\ recurring[k].pass = "manual"
          /\ recurring[k].txIds \cap recurring[j].txIds # {}

(***************************************************************************)
(* Digit runs and tokens of a string.                                      *)
(***************************************************************************)
\* The maximal runs of digits of s, left to right, from position i on
RECURSIVE DigitRunsFrom(_, _)
DigitRunsFrom(s, i) ==
    IF i > Len(s) THEN <<>>
    ELSE IF IsDigit(CharAt(s, i))
         THEN <<SubSeq(s, i, DigitRunEnd(s, i))>>
              \o DigitRunsFrom(s, DigitRunEnd(s, i) + 1)
         ELSE DigitRunsFrom(s, i + 1)

\* The runs of at most four digits among them
RECURSIVE ShortOnes(_)
ShortOnes(runs) ==
    IF runs = <<>> THEN <<>>
    ELSE (IF Len(Head(runs)) <= 4 THEN <<Head(runs)>> ELSE <<>>)
         \o ShortOnes(Tail(runs))

ShortDigitRuns(s) == ShortOnes(DigitRunsFrom(s, 1))

\* s has a token, delimited by spaces or the ends of s, of five or more
\* characters, all of them digits
HasLongDigitToken(s) ==
    \E i \in 1..Len(s) : \E j \in i..Len(s) :
        /\ j - i + 1 >= 5
        /\ \A k \in i..j : IsDigit(CharAt(s, k))
        /\ i = 1 \/ CharAt(s, i - 1) = " "
        /\ j = Len(s) \/ CharAt(s, j + 1) = " "

\* C23: for every description, the normalized key has no space-delimited
\* token made only of five or more digits, and the runs of at most four
\* digits of the description are all kept, in their order.
C23_LongDigitRunsRemoved ==
    pc = "done" =>
        /\ ~HasLongDigitToken(normalizedKey)
        /\ ShortDigitRuns(normalizedKey) = ShortDigitRuns(rawDescription)

\* C23, the part that holds: runs of at most four digits are kept.
C23_ShortRunsKept ==
    pc = "done" => ShortDigitRuns(normalizedKey) = ShortDigitRuns(rawDescription)

\* C23, for descriptions without an underscore: no token of five or more
\* digits is left.
C23_RemovedUnlessUnderscore ==
    (pc = "done" /\ ~includes(rawDescription, "_")) =>
        ~HasLongDigitToken(normalizedKey)

\* C23: a run of five digits after an underscore is left standing as a token.
C23_UnderscoreKeepsRun ==
    /\ pc = "done"
    /\ rawDescription = "a_11111"
    /\ normalizedKey = "a 11111"

(***************************************************************************)
(* The normalizer as the specification words it: step 4 removes what is    *)
(* left of the punctuation, the other steps are those of the code.         *)
(***************************************************************************)
\* "Remove all remaining non-alphanumeric, non-space characters"
RECURSIVE RemoveSpecialChars(_)
RemoveSpecialChars(s) ==
    IF Len(s) = 0 THEN ""
    ELSE LET c == CharAt(s, 1)
         IN (IF IsLower(c) \/ IsDigit(c) \/ IsSpace(c) THEN c ELSE "")
            \o RemoveSpecialChars(Tail(s))

normalize_SpecSteps(d) ==
    trim(CollapseWhitespace(RemoveSpecialChars(RemoveLongDigitRuns(
        ReplaceSeparators(toLowerCase(d))))))

IsLetter(c) == IsLower(c) \/ IsUpper(c)

\* d without the punctuation that stands between two letters
RECURSIVE InWordPunctuationRemovedFrom(_, _)
InWordPunctuationRemovedFrom(d, i) ==
    IF i > Len(d) THEN ""
    ELSE (IF /\ CharAt(d, i) \in {"-", "_"}
             /\ i > 1 /\ IsLetter(CharAt(d, i - 1))
             /\ i < Len(d) /\ IsLetter(CharAt(d, i + 1))
          THEN "" ELSE CharAt(d, i))
         \o InWordPunctuationRemovedFrom(d, i + 1)

InWordPunctuationRemoved(d) == InWordPunctuationRemovedFrom(d, 1)

RECURSIVE WithoutSpaces(_)
WithoutSpaces(s) ==
    IF Len(s) = 0 THEN ""
    ELSE (IF CharAt(s, 1) = " " THEN "" ELSE CharAt(s, 1)) \o WithoutSpaces(Tail(s))

\* C24: the key of a description is what the five steps of the
\* specification give, the fourth of which deletes the remaining
\* punctuation; so a description and the same description without the
\* punctuation inside its words have the same key.
C24_FiveSteps ==
    pc = "done" =>
        /\ normalizedKey = normalize_SpecSteps(rawDescription)
        /\ normalizedKey = normalizeMerchant(InWordPunctuationRemoved(rawDescription))

\* C24, what holds: the key and the result of the specification's steps
\* differ by spaces only.
C24_SameButForSpaces ==
    pc = "done" =>
        WithoutSpaces(normalizedKey) = WithoutSpaces(normalize_SpecSteps(rawDescription))

\* C24: punctuation inside a word splits the key in two words.
C24_PunctuationSplitsWord ==
    /\ pc = "done"
    /\ rawDescription = "a-B"
    /\ normalizedKey = "a b"
    /\ normalize_SpecSteps(rawDescription) = "ab"
    /\ normalizeMerchant("aB") = "ab"

\* The mean of the absolute amounts of a group is under one cent
MeanUnderOneCent(txns) == SumSeq(AbsAmounts(txns)) < Len(txns)

\* C25: a group whose mean absolute amount is under 0.01, a group of zero
\* amounts included, is dropped in both passes before the variance check:
\* no entry is emitted for it, the variance ratio is never computed with a
\* mean of zero (nor with one under a cent), and no emitted entry has an
\* averageAmount under 0.01.
C25_TinyMeanDropped ==
    pc = "done" =>
        /\ \A g \in Pass1Groups(transactions) \cup Pass2Groups(transactions, zone) :
              MeanUnderOneCent(g) =>
                  \A i \in DOMAIN detected :
                      detected[i].txIds # { g[k].id : k \in DOMAIN g }
        /\ \A amounts \in VarianceDivisions(transactions, zone) :
              SumSeq(amounts) >= Len(amounts)
        /\ \A i \in DOMAIN detected :
              ~RatLess(detected[i].averageAmount, Rat(1, 1))

\* C25: three free charges a month apart and two waived sewer bills of
\* different months were fetched, both groups have a mean of zero, and
\* nothing is detected.
C25_Witness ==
    /\ pc = "done"
    /\ {"z1", "z2", "z3", "u1", "u2"} = FetchedIds
    /\ \E g \in Pass1Groups(transactions) : Len(g) = 3 /\ SumSeq(AbsAmounts(g)) = 0
    /\ \E g \in Pass2Groups(transactions, zone) :
          Len(g) = 2 /\ distinctMonths(g) = 2 /\ SumSeq(AbsAmounts(g)) = 0
    /\ detected = <<>>

\* C25: at the boundary, three charges of one cent are detected with an
\* averageAmount of exactly 0.01.
C25_OneCentKept ==
    /\ pc = "done"
    /\ {"z4", "z5", "z6"} = FetchedIds
    /\ Len(detected) = 1
    /\ RatEq(detected[1].averageAmount, Rat(1, 1))

\* C26: the intervalDays the classifier returns lies inside the range of
\* mean gaps of the frequency it returns (weekly 4..10, biweekly 11..17,
\* monthly 25..35): rounding the mean never moves it out of the band.
C26_IntervalInBand ==
    (pc = "done" /\ frequencyResult # Null) =>
        /\ frequencyResult.frequency \in {"weekly", "biweekly", "monthly"}
        /\ frequencyResult.frequency = "weekly" => frequencyResult.intervalDays \in 4..10
        /\ frequencyResult.frequency = "biweekly" => frequencyResult.intervalDays \in 11..17
        /\ frequencyResult.frequency = "monthly" => frequencyResult.intervalDays \in 25..35

\* C26 for the entries of the detector, those of Pass 2 with their fixed 30
\* days included.
C26_EntriesInBand ==
    pc = "done" =>
        \A i \in DOMAIN detected :
            /\ detected[i].frequency = "weekly" => detected[i].intervalDays \in 4..10
            /\ detected[i].frequency = "biweekly" => detected[i].intervalDays \in 11..17
            /\ detected[i].frequency = "monthly" => detected[i].intervalDays \in 25..35

\* C26: gaps of 11, 11 and 7 days have a mean of 9.67, classed weekly, and
\* the mean is rounded up to 10, the upper edge of the weekly range.
C26_Witness ==
    /\ pc = "done"
    /\ Len(gaps) = 3
    /\ SumSeq(gaps) = 29
    /\ FrequencyIs(frequencyResult, "weekly")
    /\ frequencyResult.intervalDays = 10

\* The calls of a handler with a status
CallsOf(handler, status) ==
    { c \in DOMAIN handlerCalls :
        handlerCalls[c].handler = handler /\ handlerCalls[c].status = status }

\* C27: when the request of a handleRemove call fails, the rollback puts
\* that call's merchant back and no other: another merchant, removed by a
\* handleRemove call whose request has succeeded and absent from the list,
\* is still absent after the rollback, in every interleaving.
C27_RollbackOnlyOwnMerchant ==
    [][ \A c \in CallsOf("handleRemove", "inFlight") :
            handlerCalls'[c].status = "failed" =>
                /\ handlerCalls[c].key \in MerchantKeysOf(clientList')
                /\ \A d \in CallsOf("handleRemove", "ok") :
                       (/\ handlerCalls[d].key # handlerCalls[c].key
                        /\ handlerCalls[d].key \notin MerchantKeysOf(clientList))
                       => handlerCalls[d].key \notin MerchantKeysOf(clientList') ]_vars

\* C27, the part that holds: the rollback puts the call's own merchant back.
C27_OwnMerchantRestored ==
    [][ \A c \in CallsOf("handleRemove", "inFlight") :
            handlerCalls'[c].status = "failed" =>
                handlerCalls[c].key \in MerchantKeysOf(clientList') ]_vars

\* C27: two cards were removed and nothing was added; the request of the
\* first removal failed, that of the second succeeded, and the merchant of
\* the second is displayed.
C27_SucceededRemovalUndone ==
    /\ Len(handlerCalls) = 2
    /\ handlerCalls[1].handler = "handleRemove" /\ handlerCalls[1].status = "failed"
    /\ handlerCalls[2].handler = "handleRemove" /\ handlerCalls[2].status = "ok"
    /\ handlerCalls[2].key \in MerchantKeysOf(clientList)
    /\ \E i \in DOMAIN overrideStore :
          /\ overrideStore[i].merchant_key = handlerCalls[2].key
          /\ ~overrideStore[i].is_recurring

\* C28: the displayed list never has two entries of one merchantKey,
\* whatever the interleaving of handleAdd and handleRemove calls and of the
\* answers to their requests.
C28_NoDuplicateCards ==
    \A i, j \in DOMAIN clientList :
        clientList[i].merchantKey = clientList[j].merchantKey => i = j

\* C28: a merchant was added twice, the second click made while the first
\* request was in flight and pendingKey had been overwritten by a removal;
\* both requests succeeded and the list shows the merchant on two cards.
C28_AddedTwice ==
    /\ Len(handlerCalls) = 3
    /\ handlerCalls[1].handler = "handleAdd" /\ handlerCalls[1].status = "ok"
    /\ handlerCalls[2].handler = "handleRemove"
    /\ handlerCalls[3].handler = "handleAdd" /\ handlerCalls[3].status = "ok"
    /\ handlerCalls[3].key = handlerCalls[1].key
    /\ Cardinality({ i \in DOMAIN clientList :
                        clientList[i].merchantKey = handlerCalls[1].key }) = 2

\* C28: the same with the removal first: its answer clears pendingKey
\* while the first add is in flight.
C28_AddedTwiceAfterClear ==
    /\ Len(handlerCalls) = 3
    /\ handlerCalls[1].handler = "handleRemove"
    /\ handlerCalls[2].handler = "handleAdd" /\ handlerCalls[2].status = "ok"
    /\ handlerCalls[3].handler = "handleAdd" /\ handlerCalls[3].status = "ok"
    /\ handlerCalls[3].key = handlerCalls[2].key
    /\ Cardinality({ i \in DOMAIN clientList :
                        clientList[i].merchantKey = handlerCalls[2].key }) = 2

\* The stored row of an item, and the ids of the rows of transactions
StoredItem(item_id) ==
    plaid_items[CHOOSE k \in DOMAIN plaid_items : plaid_items[k].item_id = item_id]

TxIds == { r.id : r \in txTable }

\* The transactions of an item that exist at a cursor: added by one of the
\* updates up to it and not removed by one of them
LiveIds(item_id, cursor) ==
    LET seen == SubSeq(PlaidUpdates(item_id), 1, cursor)
    IN { seen[k].transaction_id : k \in { j \in DOMAIN seen : seen[j].kind = "added" } }
       \ { seen[k].transaction_id : k \in { j \in DOMAIN seen : seen[j].kind = "removed" } }

\* C29: when transactionsSync fails for an item, on whichever page, the
\* step of the loop leaves the stored cursors and the transactions table as
\* they were and goes on to the next item; the route answers only after
\* the last item, and its response lists every recorded error, the failed
\* item's among them, with status 207.
C29_FailedItemSkipped ==
    [][ /\ (/\ syncPc = "loop"
            /\ Len(itemErrors') = Len(itemErrors) + 1
            /\ itemErrors'[Len(itemErrors')].what = "transactionsSync")
           => /\ itemErrors'[Len(itemErrors')].item_id = items[itemIndex].item_id
              /\ plaid_items' = plaid_items
              /\ txTable' = txTable
              /\ syncPc' = "loop"
              /\ items' = items
              /\ itemIndex' = itemIndex + 1
        /\ (syncPc = "loop" /\ syncPc' = "idle")
           => /\ itemIndex > Len(items)
              /\ syncResponse'.errors = itemErrors
              /\ itemErrors # <<>> => syncResponse'.status = 207 ]_vars

\* C29: transactionsSync failed for the first bank and the call was
\* answered 207 with that error; the bank's cursor is still null and none of
\* its transactions is stored, while the bank after it in the loop was
\* synced to its last update.
C29_Witness ==
    /\ syncPc = "idle"
    /\ syncCalls = 1
    /\ syncResponse # Null
    /\ syncResponse.status = 207
    /\ syncResponse.errors = <<ItemError("itemA", "transactionsSync")>>
    /\ StoredItem("itemA").cursor = 0
    /\ TxIds \cap {"a1", "a2", "a3"} = {}
    /\ StoredItem("itemB").cursor = 5
    /\ TxIds = {"b0", "b1"}

\* C30: the stored cursor of an item is never ahead of the transactions
\* table: every transaction Plaid delivered up to the stored cursor and did
\* not remove is in the table.
C30_CursorBehindTable ==
    \A k \in DOMAIN plaid_items :
        LiveIds(plaid_items[k].item_id, plaid_items[k].cursor) \subseteq TxIds

\* C30: the upsert of the first call failed after the cursor had been
\* stored; the second call fetched from that cursor, got nothing, and was
\* answered 200, and the transactions are still not in the table.
C30_LostForGood ==
    /\ syncPc = "idle"
    /\ syncCalls = 2
    /\ syncResponse # Null
    /\ syncResponse.status = 200
    /\ syncResponse.synced = 0
    /\ StoredItem("itemA").cursor = 3
    /\ TxIds \cap {"a1", "a2", "a3"} = {}

====
